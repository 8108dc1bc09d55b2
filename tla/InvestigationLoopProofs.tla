----------------------- MODULE InvestigationLoopProofs -----------------------
(***************************************************************************)
(* Theorems about InvestigationLoop, for any number of executors, tools    *)
(* and packages and for every limit of the stop policy.                    *)
(***************************************************************************)
EXTENDS InvestigationLoop, FiniteSetTheorems, SequenceTheorems, TLAPS

----------------------------------------------------------------------------
(* The inductive invariant. *)

ToolActs    == [kind : {"tool"}, what : Keys]
ClarifyActs == [kind : {"clarify"}, what : {"missing_evidence", "value_tradeoff"}]
PackageActs == [kind : {"package"}, what : Packages]
VerdictActs == [kind : {"verdict"}, what : BOOLEAN]
Acts        == ToolActs \cup ClarifyActs \cup PackageActs \cup VerdictActs \cup {None}

StepStates == {"none", "running", "success", "failed", "broken", "discarded"}
CallStates == {"running", "success", "failed", "fatal", "discarded"}

Prints == [act : ToolActs \cup [kind : {"package"}], hash : Hashes,
           steps : [Keys -> StepStates], report : BOOLEAN \cup {None}] \cup {None}

RunRow == [status : Terminal \cup {"running", "waiting"}, reason : Reasons \cup {""}, gen : Nat,
           package : Packages \cup {None}, relevance : Packages \cup {None},
           inputs : 0 .. MaxHandovers, searched : BOOLEAN, processed : BOOLEAN,
           tools : 0 .. MaxTools, reads : 0 .. MaxReads, since : 0 .. MaxChurn + 1,
           fresh : BOOLEAN, repeated : [of : Prints, times : Nat]]

StepRow == {row \in [st : StepStates, tries : 0 .. 2] : row.st = "none" => row.tries = 0}

CallRow == [role : Roles, st : CallStates]

ReportRow == [ok : BOOLEAN, hash : Hashes, after : Nat, about : Hashes \cup {None},
              by : Nat, for : Nat]

ExecutorRow == [pc : Labels, token : Nat, round : 0 .. MaxIterations, call : Nat, act : Acts,
                asked : SUBSET Reads, seen : Hashes \cup {None}]

RowsAreTyped ==
  /\ run \in RunRow
  /\ steps \in [Keys -> StepRow]
  /\ calls \in Seq(CallRow) /\ Len(calls) <= MaxCalls
  /\ report \in ReportRow \cup {None}
  /\ level \in {"open", "reserve", "spent"} /\ moved \in BOOLEAN /\ taken \in 0 .. MaxHandovers
  /\ ex \in [Executors -> ExecutorRow]

\* What an executor holds fits the place where it is.
Fits(row) ==
  /\ row.pc = "note" => row.act \in ToolActs \cup ClarifyActs \cup PackageActs
  /\ row.pc \in {"apply", "relate"} => row.act \in PackageActs
  /\ row.pc \in {"tool", "tooling", "read", "reading"} => row.act \in ToolActs
  /\ row.pc = "clarify" => row.act \in ClarifyActs
  /\ row.pc = "record" => row.act \in VerdictActs
  /\ row.pc \notin {"idle", "done", "raised", "loop", "guard"} => row.round < MaxIterations

Working(e) == ex[e].pc \notin {"idle", "done"}

\* Tokens tell the executors of a run apart, and only the youngest may be the
\* run's; whoever ends the run or lets it wait gives the token up.
TokensTell ==
  /\ \A e \in Executors : ex[e].token <= run.gen
  /\ \A e, f \in Executors : Working(e) /\ Working(f) /\ ex[e].token = ex[f].token => e = f
  /\ \A e \in Executors : Working(e) /\ run.status # "running" => ex[e].token < run.gen

\* Before the first takeover an executor is the run's, or was until the run
\* ended, and what ended it is the executor's failure or an abort.
NobodyElse ==
  taken = 0 => \A e \in Executors : Working(e) =>
    /\ Active => ex[e].token = run.gen
    /\ ~Active => ex[e].token = run.gen - 1
    /\ run.status # "ready"
    /\ run.status = "failed" => ex[e].pc = "raised"

\* A tool runs for one executor, and nobody but its owner settles its step.
StepsAreHeld ==
  \A e \in Executors : ex[e].pc \in {"tooling", "reading"} =>
    /\ steps[ex[e].act.what].st \in {"running", "discarded"}
    /\ \A f \in Executors :
         ex[f].pc \in {"tooling", "reading"} /\ ex[f].act.what = ex[e].act.what => e = f

\* A model call is asked by one executor; the failure of the run discards it.
CallsAreHeld ==
  \A e \in Executors : ex[e].pc = "asked" =>
    /\ ex[e].call \in DOMAIN calls
    /\ calls[ex[e].call].st \in {"running", "discarded"}
    /\ calls[ex[e].call].st = "discarded" => run.status = "failed"
    /\ \A f \in Executors : ex[f].pc = "asked" /\ ex[f].call = ex[e].call => e = f
    /\ taken = 0 => ex[e].call = Len(calls)

\* The sources a package calls relevant were read, before it is applied and after.
SourcesWereRead ==
  /\ run.package # None => Relevant[run.package] \subseteq Succeeded
  /\ \A e \in Executors : ex[e].pc \in {"apply", "relate"} => Relevant[ex[e].act.what] \subseteq Succeeded

\* Before the first takeover a verifier's verdict is bound to the package it saw.
VerdictsAreBound ==
  taken = 0 =>
    /\ report # None => report.about = report.hash
    /\ \A e \in Executors :
         /\ ex[e].pc = "asked" /\ calls[ex[e].call].role = "verifier" => ex[e].seen = Hash
         /\ ex[e].pc = "record" => ex[e].seen = Hash

\* Before the first takeover the relevance belongs to the package, or the
\* executor is on its way to state it, or failed on that way.
RelevanceFollows ==
  taken = 0 =>
    /\ \A e \in Executors : ex[e].pc = "relate" => ex[e].act.what = run.package
    /\ run.status \in {"running", "waiting", "ready"} =>
         run.relevance = run.package \/ \E e \in Executors : ex[e].pc \in {"relate", "raised"}

\* A repeated action counts towards MaxRepeats, and once more for every takeover.
RepeatsAreCounted ==
  /\ run.repeated.times <= MaxRepeats + 1 + taken
  /\ Active /\ (\A e \in Executors : ex[e].token = run.gen => ex[e].pc \notin {"repeats", "raised"})
       => run.repeated.times <= MaxRepeats + taken

\* What the failures of a role may still grow to.
Failed(role)  == {i \in CallsOf(role) : /\ calls[i].st \in {"failed", "fatal"}
                                        /\ \A j \in Successes(role) : j < i}
OpenCalls     == {i \in DOMAIN calls : calls[i].st = "running"}
Counted(role) == {i \in CallsOf(role) : i \in Failed(role) \/ i \in OpenCalls}

\* The call the run's owner waits for.
Mine == {i \in DOMAIN calls : \E e \in Executors :
           ex[e].pc = "asked" /\ ex[e].token = run.gen /\ ex[e].call = i}

\* The run's owner has not run into an error that ends the run.
Unfallen == Active /\ \A e \in Executors : ex[e].token = run.gen => ex[e].pc \notin {"provider", "raised"}

\* Every takeover leaves at most one call behind that may fail under its role.
FailuresAreCounted ==
  /\ Cardinality(OpenCalls) <= 1 + taken
  /\ \A role \in Roles : Cardinality(Counted(role)) <= 2 + taken
  /\ Unfallen => /\ Cardinality(OpenCalls \ Mine) <= taken
                 /\ \A role \in Roles : Cardinality(Counted(role) \ Mine) <= 1 + taken

\* Before the first takeover nothing follows an error that does not pass.
FatalIsLast ==
  taken = 0 =>
    /\ \A i \in DOMAIN calls : calls[i].st = "fatal" => i = Len(calls)
    /\ Unfallen => \A i \in DOMAIN calls : calls[i].st # "fatal"

LoopInv ==
  /\ RowsAreTyped /\ (\A e \in Executors : Fits(ex[e]))
  /\ TokensTell /\ NobodyElse /\ StepsAreHeld /\ CallsAreHeld
  /\ SourcesWereRead /\ VerdictsAreBound /\ RelevanceFollows
  /\ RepeatsAreCounted /\ FailuresAreCounted /\ FatalIsLast
  /\ OpenWorkIsOwned /\ ReadyIsEarned

----------------------------------------------------------------------------
(* How the moves of an executor change its row. *)

Moves(e) ==
  /\ ex' \in [Executors -> ExecutorRow]
  /\ \A f \in Executors \ {e} : ex'[f] = ex[f]

\* Everything but the place of an executor is kept.
KeepsHands(e) ==
  /\ ex'[e].token = ex[e].token /\ ex'[e].round = ex[e].round /\ ex'[e].call = ex[e].call
  /\ ex'[e].act = ex[e].act /\ ex'[e].asked = ex[e].asked /\ ex'[e].seen = ex[e].seen

\* An executor goes to another place of the loop.
LEMMA Going ==
  ASSUME ex \in [Executors -> ExecutorRow], NEW e \in Executors, NEW l \in Labels, Goto(e, l)
  PROVE  Moves(e) /\ ex'[e].pc = l /\ KeepsHands(e)
  BY DEF Goto, Moves, KeepsHands, ExecutorRow

\* The row of an executor that is nowhere.
LEMMA IdleIsARow == Idle \in ExecutorRow /\ Idle.round = 0 /\ Idle.token = 0
  BY LimitsAssumption DEF Idle, ExecutorRow, Labels, Acts

\* An executor that is done forgets what it held.
LEMMA Quitting ==
  ASSUME ex \in [Executors -> ExecutorRow], NEW e \in Executors, Quit(e)
  PROVE  Moves(e) /\ ex'[e].pc = "done" /\ ex'[e].token = 0
<1>1. Idle \in ExecutorRow /\ "done" \in Labels
  BY IdleIsARow DEF Labels
<1>2. [Idle EXCEPT !.pc = "done"] \in ExecutorRow
  BY <1>1 DEF ExecutorRow
<1>3. QED
  BY <1>2, IdleIsARow DEF Quit, Moves, Idle

\* An executor that raises keeps its token, for the worker to fail the run with.
LEMMA Raising ==
  ASSUME ex \in [Executors -> ExecutorRow], NEW e \in Executors, Raise(e)
  PROVE  Moves(e) /\ ex'[e].pc = "raised" /\ ex'[e].token = ex[e].token
<1>1. Idle \in ExecutorRow /\ "raised" \in Labels /\ ex[e].token \in Nat
  BY IdleIsARow DEF Labels, ExecutorRow
<1>2. [Idle EXCEPT !.pc = "raised", !.token = ex[e].token] \in ExecutorRow
  BY <1>1 DEF ExecutorRow
<1>3. QED
  BY <1>2 DEF Raise, Moves, Idle

\* The next iteration starts with empty hands.
LEMMA Rounding ==
  ASSUME ex \in [Executors -> ExecutorRow], NEW e \in Executors,
         ex[e].round < MaxIterations, NextRound(e)
  PROVE  Moves(e) /\ ex'[e].pc = "loop" /\ ex'[e].token = ex[e].token
<1>1. Idle \in ExecutorRow /\ "loop" \in Labels /\ ex[e].token \in Nat
  BY IdleIsARow DEF Labels, ExecutorRow
<1>2. ex[e].round + 1 \in 0 .. MaxIterations
  BY LimitsAssumption DEF ExecutorRow
<1>3. [Idle EXCEPT !.pc = "loop", !.token = ex[e].token, !.round = ex[e].round + 1] \in ExecutorRow
  BY <1>1, <1>2 DEF ExecutorRow
<1>4. QED
  BY <1>3 DEF NextRound, Moves, Idle

\* An executor goes on with an action in its hands.
LEMMA Taking ==
  ASSUME ex \in [Executors -> ExecutorRow], NEW e \in Executors, NEW l \in Labels,
         NEW what \in Acts, Then(e, l, what)
  PROVE  /\ Moves(e) /\ ex'[e].pc = l /\ ex'[e].act = what
         /\ ex'[e].token = ex[e].token /\ ex'[e].round = ex[e].round /\ ex'[e].seen = ex[e].seen
  BY ZenonT(40) DEF Then, Moves, ExecutorRow

----------------------------------------------------------------------------
(* Every step keeps the types, and what an executor holds fits its place. *)

\* The parts of the invariant that every step needs.
Typed == RowsAreTyped /\ (\A e \in Executors : Fits(ex[e])) /\ CallsAreHeld

StepKeepsTypes(e) == RowsAreTyped' /\ Moves(e) /\ Fits(ex'[e])

\* register_hash and brief_hash are those of a package the run may have.
LEMMA HashType ==
  ASSUME run \in RunRow
  PROVE  Hash \in Hashes
  BY DEF RunRow, Hash, Hashes

\* A fingerprint is one of finitely many.
LEMMA PrintType ==
  ASSUME Typed, NEW e \in Executors, ex[e].pc = "note"
  PROVE  Fingerprint(e) \in Prints
<1>1. Hash \in Hashes
  BY HashType DEF Typed, RowsAreTyped
<1>2. [k \in Keys |-> steps[k].st] \in [Keys -> StepStates]
  BY DEF Typed, RowsAreTyped, StepRow
<1>3. (IF report = None THEN None ELSE report.ok) \in BOOLEAN \cup {None}
  BY DEF Typed, RowsAreTyped, ReportRow
<1>4. ex[e].act \in ToolActs \cup ClarifyActs \cup PackageActs
  BY DEF Typed, Fits
<1>5. ex[e].act.kind \in {"tool", "clarify", "package"} /\ (ex[e].act.kind = "tool" => ex[e].act \in ToolActs)
  BY <1>4 DEF ToolActs, ClarifyActs, PackageActs
<1>6. (IF ex[e].act.kind = "tool" THEN ex[e].act ELSE [kind |-> "package"])
        \in ToolActs \cup [kind : {"package"}]
  BY <1>5
<1>7. QED
  BY <1>1, <1>2, <1>3, <1>6 DEF Fingerprint, Prints

\* Settling a call changes its outcome only.
LEMMA SettledTypes ==
  ASSUME Typed, NEW e \in Executors, ex[e].pc = "asked", NEW st \in CallStates, Settled(e, st)
  PROVE  /\ calls' \in Seq(CallRow) /\ Len(calls') = Len(calls) /\ DOMAIN calls' = DOMAIN calls
         /\ ex[e].call \in 1 .. Len(calls) /\ DOMAIN calls = 1 .. Len(calls)
         /\ calls'[ex[e].call] = [role |-> calls[ex[e].call].role, st |-> st]
         /\ \A i \in 1 .. Len(calls) : i # ex[e].call => calls'[i] = calls[i]
<1>1. /\ calls \in Seq(CallRow) /\ DOMAIN calls = 1 .. Len(calls) /\ Len(calls) \in Nat
      /\ calls \in [1 .. Len(calls) -> CallRow]
  BY LenProperties DEF Typed, RowsAreTyped
<1>2. ex[e].call \in 1 .. Len(calls)
  BY <1>1 DEF Typed, CallsAreHeld
<1>3. calls[ex[e].call] \in CallRow
  BY <1>1, <1>2
<1>4. [calls[ex[e].call] EXCEPT !.st = st] = [role |-> calls[ex[e].call].role, st |-> st]
  BY <1>3 DEF CallRow
<1>5. [role |-> calls[ex[e].call].role, st |-> st] \in CallRow
  BY <1>3 DEF CallRow
<1>6. calls' = [calls EXCEPT ![ex[e].call] = [role |-> calls[ex[e].call].role, st |-> st]]
  BY <1>4 DEF Settled
<1>7. calls' \in [1 .. Len(calls) -> CallRow]
  BY <1>1, <1>5, <1>6
<1>8. QED
  BY <1>1, <1>2, <1>6, <1>7

\* The generation that follows a run's is a number.
LEMMA NextGeneration ==
  ASSUME run \in RunRow
  PROVE  run.gen \in Nat /\ run.gen + 1 \in Nat
<1>1. run.gen \in Nat
  BY DEF RunRow
<1>2. QED
  BY <1>1

\* Every route is a place of the loop.
LEMMA RouteIsPlace == Route \in {"gap", "ready", "budget", "verify", "churn", "synthesize", "plan"}
  BY DEF Route

\* The steps that decide, stop, or are locked out.
LEMMA ControlTypes ==
  ASSUME Typed, NEW e \in Executors,
         \/ Start(e) \/ Advance(e) \/ Lockout(e) \/ Suspend(e) \/ MakeReady(e) \/ Fail(e)
         \/ FailExecution(e) \/ Crash(e)
  PROVE  StepKeepsTypes(e)
<1> USE DEF Typed
<1> USE DEF StepKeepsTypes
<1>0. RowsAreTyped /\ Fits(ex[e]) /\ ex \in [Executors -> ExecutorRow] /\ run \in RunRow
  BY DEF RowsAreTyped
<1>1. ASSUME NEW l, l \in {"loop", "raised", "done"} \cup {"gap", "ready", "budget", "verify", "churn", "synthesize", "plan", "guard"},
             Goto(e, l), ex[e].round < MaxIterations \/ l = "guard"
      PROVE  Moves(e) /\ Fits(ex'[e])
  BY <1>0, <1>1, Going DEF Fits, Labels, Writes, KeepsHands
<1>2. ASSUME Raise(e) PROVE Moves(e) /\ Fits(ex'[e])
  BY <1>0, <1>2, Raising DEF Fits
<1>3. ASSUME Quit(e) PROVE Moves(e) /\ Fits(ex'[e])
  BY <1>0, <1>3, Quitting DEF Fits
<1>4. ASSUME NEW r \in RunRow, run' = r, UNCHANGED <<steps, calls, report, level, moved, taken>>, Moves(e)
      PROVE  RowsAreTyped'
  BY <1>0, <1>4 DEF RowsAreTyped, Moves
<1>5. CASE Start(e)
  <2>1. [Idle EXCEPT !.pc = "loop", !.token = run.gen] \in ExecutorRow
    BY <1>0, IdleIsARow DEF ExecutorRow, RunRow, Labels
  <2>2. Moves(e) /\ ex'[e].pc = "loop"
    BY <1>0, <1>5, <2>1, IdleIsARow DEF Start, Moves, ExecutorRow
  <2>3. QED
    BY <1>0, <1>4, <1>5, <2>2 DEF Start, Fits
<1>6. CASE Advance(e)
  <2>1. Moves(e) /\ Fits(ex'[e])
    <3>1. CASE ex[e].round >= MaxIterations
      BY <1>1, <1>6, <3>1 DEF Advance
    <3>2. CASE ~(ex[e].round >= MaxIterations)
      <4>1. ex[e].round < MaxIterations
        BY <1>0, <3>2, LimitsAssumption DEF ExecutorRow
      <4>2. QED
        BY <1>1, <1>2, <1>6, <3>2, <4>1, RouteIsPlace DEF Advance
    <3>3. QED
      BY <3>1, <3>2
  <2>2. QED
    BY <1>0, <1>4, <1>6, <2>1 DEF Advance
<1>7. CASE Lockout(e)
  BY <1>0, <1>2, <1>4, <1>7 DEF Lockout
<1>8. CASE Suspend(e)
  <2>1. (CASE ex[e].pc = "gap"    -> "missing_evidence"
           [] ex[e].pc = "budget" -> "budget_exhausted"
           [] OTHER               -> ex[e].act.what) \in Reasons
    BY <1>0, <1>8 DEF Suspend, Fits, ClarifyActs, Reasons
  <2>2. run' \in RunRow
    BY <1>0, <1>8, <2>1 DEF Suspend, RunRow
  <2>3. QED
    BY <1>3, <1>4, <1>8, <2>2 DEF Suspend
<1>9. CASE MakeReady(e)
  <2>0. UNCHANGED run \/ run' = [run EXCEPT !.status = "ready", !.gen = run.gen + 1]
    BY <1>9 DEF MakeReady
  <2>1. run' \in RunRow
    BY <1>0, <2>0, NextGeneration, ZenonT(40) DEF RunRow, Terminal
  <2>2. QED
    BY <1>2, <1>3, <1>4, <1>9, <2>1 DEF MakeReady
<1>10. CASE Fail(e)
  <2>1. run' \in RunRow
    BY <1>0, <1>10, NextGeneration DEF Fail, RunRow, Terminal, Reasons
  <2>2. QED
    BY <1>2, <1>3, <1>4, <1>10, <2>1 DEF Fail
<1>11. CASE Crash(e)
  BY <1>0, <1>2, <1>4, <1>11 DEF Crash
<1>12. CASE FailExecution(e)
  <2>1. Moves(e) /\ Fits(ex'[e])
    BY <1>3, <1>12 DEF FailExecution
  <2>0. \/ UNCHANGED run
        \/ run' = [run EXCEPT !.status = "failed", !.reason = "technical_failure", !.gen = run.gen + 1]
    BY <1>12 DEF FailExecution
  <2>2. run' \in RunRow
    <3>1. PICK g \in Nat : g = run.gen + 1
      BY <1>0, NextGeneration
    <3>2. [run EXCEPT !.status = "failed", !.reason = "technical_failure", !.gen = g] \in RunRow
      BY <1>0, ZenonT(60) DEF RunRow, Terminal, Reasons
    <3>3. QED
      BY <1>0, <2>0, <3>1, <3>2
  <2>3. steps' \in [Keys -> StepRow]
    BY <1>0, <1>12 DEF FailExecution, RowsAreTyped, StepRow, StepStates
  <2>4. calls' \in Seq(CallRow) /\ Len(calls') <= MaxCalls
    <3>1. CASE UNCHANGED calls
      BY <1>0, <3>1 DEF RowsAreTyped
    <3>2. CASE calls' = [i \in DOMAIN calls |-> IF calls[i].st = "running"
                                              THEN [calls[i] EXCEPT !.st = "discarded"] ELSE calls[i]]
      <4>1. DOMAIN calls = 1 .. Len(calls) /\ Len(calls) \in Nat /\ \A i \in DOMAIN calls : calls[i] \in CallRow
        BY <1>0 DEF RowsAreTyped
      <4>2. calls' \in [1 .. Len(calls) -> CallRow]
        BY <3>2, <4>1 DEF CallRow, CallStates
      <4>3. QED
        BY <1>0, <4>1, <4>2 DEF RowsAreTyped
    <3>3. QED
      BY <1>12, <3>1, <3>2 DEF FailExecution
  <2>5. QED
    BY <1>0, <1>12, <2>1, <2>2, <2>3, <2>4 DEF FailExecution, RowsAreTyped, Moves
<1>13. QED
  BY <1>5, <1>6, <1>7, <1>8, <1>9, <1>10, <1>11, <1>12

\* The steps around a model call.
LEMMA CallTypes ==
  ASSUME Typed, NEW e \in Executors,
         \/ Ask(e) \/ Error(e, "failed") \/ Error(e, "fatal") \/ LateAnswer(e)
         \/ Planned(e) \/ Synthesized(e) \/ Verified(e) \/ Record(e)
  PROVE  StepKeepsTypes(e)
<1> USE DEF Typed
<1> USE DEF StepKeepsTypes
<1>0. RowsAreTyped /\ Fits(ex[e]) /\ ex \in [Executors -> ExecutorRow] /\ run \in RunRow
  BY DEF RowsAreTyped
<1>1. ASSUME NEW l \in {"budget", "provider", "synthesize", "contract", "ready"},
             Goto(e, l), ex[e].round < MaxIterations
      PROVE  Moves(e) /\ Fits(ex'[e])
  BY <1>0, <1>1, Going DEF Fits, Labels, Writes, KeepsHands
<1>2. ASSUME Raise(e) PROVE Moves(e) /\ Fits(ex'[e])
  BY <1>0, <1>2, Raising DEF Fits
<1>3. ASSUME NextRound(e), ex[e].round < MaxIterations PROVE Moves(e) /\ Fits(ex'[e])
  BY <1>0, <1>3, Rounding DEF Fits
<1>4. ASSUME NEW st \in CallStates, Settled(e, st), ex[e].pc = "asked",
             run' \in RunRow, UNCHANGED <<steps, report, level, moved, taken>>, Moves(e)
      PROVE  RowsAreTyped'
  BY <1>0, <1>4, SettledTypes DEF RowsAreTyped, Moves
<1>5. ASSUME NEW k \in Keys, Then(e, "note", [kind |-> "tool", what |-> k]), ex[e].round < MaxIterations
      PROVE  Moves(e) /\ Fits(ex'[e])
  <2>1. [kind |-> "tool", what |-> k] \in ToolActs
    BY DEF ToolActs
  <2>2. QED
    BY <1>0, <1>5, <2>1, Taking DEF Fits, Labels, Writes, Acts
<1>6. ASSUME NEW r \in {"missing_evidence", "value_tradeoff"},
             Then(e, "note", [kind |-> "clarify", what |-> r]), ex[e].round < MaxIterations
      PROVE  Moves(e) /\ Fits(ex'[e])
  <2>1. [kind |-> "clarify", what |-> r] \in ClarifyActs
    BY DEF ClarifyActs
  <2>2. QED
    BY <1>0, <1>6, <2>1, Taking DEF Fits, Labels, Writes, Acts
<1>7. CASE Ask(e)
  <2>1. ex[e].round < MaxIterations
    BY <1>0, <1>7 DEF Ask, Fits
  <2>2. CASE Refused(RoleOf(ex[e].pc))
    BY <1>0, <1>1, <1>7, <2>1, <2>2 DEF Ask, RowsAreTyped, Moves
  <2>3. CASE ~Refused(RoleOf(ex[e].pc))
    <3> DEFINE asked == [role |-> RoleOf(ex[e].pc), st |-> "running"]
               seen  == IF RoleOf(ex[e].pc) = "verifier" THEN Hash ELSE None
    <3>1. RoleOf(ex[e].pc) \in Roles
      BY <1>7 DEF Ask, RoleOf, Roles
    <3>2. calls' = Append(calls, asked) /\ asked \in CallRow
      BY <1>7, <2>3, <3>1 DEF Ask, CallRow, CallStates
    <3>3. calls \in Seq(CallRow) /\ Len(calls) \in Nat
      BY <1>0 DEF RowsAreTyped
    <3>4. CallsLeft > 0
      <4>1. ~(CallsLeft <= 0)
        BY <2>3, <3>1 DEF Refused, InReserve, Spent, Roles
      <4>2. QED
        BY <3>3, <4>1, LimitsAssumption DEF CallsLeft
    <3>5. calls' \in Seq(CallRow) /\ Len(calls') = Len(calls) + 1 /\ Len(calls') <= MaxCalls
      BY <3>2, <3>3, <3>4, LimitsAssumption, AppendProperties DEF CallsLeft
    <3>6. ex' = [ex EXCEPT ![e].pc = "asked", ![e].call = Len(calls) + 1, ![e].seen = seen]
      BY <1>7, <2>3 DEF Ask
    <3>7. seen \in Hashes \cup {None} /\ Len(calls) + 1 \in Nat /\ "asked" \in Labels
      BY <1>0, <3>3, HashType DEF Labels
    <3>8. Moves(e) /\ ex'[e].pc = "asked" /\ ex'[e].round = ex[e].round
      <4> HIDE DEF seen
      <4>1. QED
        BY <1>0, <3>6, <3>7, ZenonT(40) DEF Moves, ExecutorRow
    <3>9. Fits(ex'[e])
      BY <2>1, <3>8 DEF Fits
    <3>10. QED
      BY <1>0, <1>7, <3>5, <3>8, <3>9 DEF Ask, RowsAreTyped, Moves
  <2>4. QED
    BY <2>2, <2>3
<1>8. ASSUME NEW st \in {"failed", "fatal"}, Error(e, st) PROVE StepKeepsTypes(e)
  <2>1. ex[e].pc = "asked" /\ ex[e].round < MaxIterations
    BY <1>0, <1>8 DEF Error, Fits
  <2>2. NextRound(e) \/ Goto(e, "provider")
    BY <1>8 DEF Error
  <2>3. Moves(e) /\ Fits(ex'[e])
    BY <1>1, <1>3, <2>1, <2>2
  <2>4. Settled(e, st) \/ UNCHANGED calls
    BY <1>8 DEF Error
  <2>5. CASE Settled(e, st)
    BY <1>0, <1>4, <1>8, <2>1, <2>3, <2>5 DEF Error, CallStates
  <2>6. CASE UNCHANGED calls
    BY <1>0, <1>8, <2>3, <2>6 DEF Error, RowsAreTyped, Moves
  <2>7. QED
    BY <2>3, <2>4, <2>5, <2>6
<1>9. CASE LateAnswer(e)
  BY <1>0, <1>2, <1>4, <1>9 DEF LateAnswer, CallStates
<1>10. CASE Planned(e)
  <2>1. ex[e].pc = "asked" /\ ex[e].round < MaxIterations /\ Settled(e, "success")
    BY <1>0, <1>10 DEF Planned, Accepted, Fits
  <2>2. Moves(e) /\ Fits(ex'[e])
    BY <1>1, <1>5, <1>6, <1>10, <2>1 DEF Planned
  <2>3. QED
    BY <1>0, <1>4, <1>10, <2>1, <2>2 DEF Planned, CallStates
<1>11. CASE Synthesized(e)
  <2>1. ex[e].pc = "asked" /\ ex[e].round < MaxIterations /\ Settled(e, "success")
    BY <1>0, <1>11 DEF Synthesized, Accepted, Fits
  <2>2. ASSUME NEW p \in Packages, Then(e, "apply", [kind |-> "package", what |-> p])
        PROVE  Moves(e) /\ Fits(ex'[e])
    <3>1. [kind |-> "package", what |-> p] \in PackageActs
      BY DEF PackageActs
    <3>2. QED
      BY <1>0, <2>1, <2>2, <3>1, Taking DEF Fits, Labels, Writes, Acts
  <2>3. Moves(e) /\ Fits(ex'[e])
    BY <1>3, <1>6, <1>11, <2>1, <2>2 DEF Synthesized
  <2>4. (IF run.since > MaxChurn THEN run.since ELSE run.since + 1) \in 0 .. MaxChurn + 1
    <3>1. run.since \in 0 .. MaxChurn + 1 /\ MaxChurn \in Nat
      BY <1>0, LimitsAssumption DEF RunRow
    <3>2. QED
      BY <3>1
  <2>5. run' \in RunRow
    BY <1>0, <1>11, <2>4 DEF Synthesized, RunRow
  <2>6. QED
    BY <1>4, <1>11, <2>1, <2>3, <2>5 DEF Synthesized, CallStates
<1>12. CASE Verified(e)
  <2>1. ex[e].pc = "asked" /\ ex[e].round < MaxIterations /\ Settled(e, "success")
    BY <1>0, <1>12 DEF Verified, Accepted, Fits
  <2>2. ASSUME NEW ok \in BOOLEAN, Then(e, "record", [kind |-> "verdict", what |-> ok])
        PROVE  Moves(e) /\ Fits(ex'[e])
    <3> DEFINE act == [kind |-> "verdict", what |-> ok]
    <3>1. act \in VerdictActs /\ act \in Acts /\ "record" \in Labels
      BY DEF VerdictActs, Acts, Labels
    <3>2. Then(e, "record", act)
      BY <2>2
    <3> HIDE DEF act
    <3>3. Moves(e) /\ ex'[e].pc = "record" /\ ex'[e].act = act /\ ex'[e].round = ex[e].round
      BY <1>0, <3>1, <3>2, Taking
    <3>4. QED
      BY <2>1, <3>1, <3>3 DEF Fits
  <2>3. ASSUME NEW k \in Reads \ ex[e].asked,
               ex' = [ex EXCEPT ![e].pc = "read", ![e].act = [kind |-> "tool", what |-> k],
                                ![e].asked = @ \cup {k}]
        PROVE  Moves(e) /\ Fits(ex'[e])
    <3> DEFINE act == [kind |-> "tool", what |-> k]
    <3>1. act \in ToolActs /\ act \in Acts
      BY DEF ToolActs, Acts, Keys
    <3>2. "read" \in Labels /\ ex[e].asked \cup {k} \in SUBSET Reads
      BY <1>0 DEF Labels, Writes, ExecutorRow
    <3>3. ex' = [ex EXCEPT ![e].pc = "read", ![e].act = act, ![e].asked = ex[e].asked \cup {k}]
      BY <2>3
    <3> HIDE DEF act
    <3>4. Moves(e) /\ ex'[e].pc = "read" /\ ex'[e].act = act /\ ex'[e].round = ex[e].round
      BY <1>0, <3>1, <3>2, <3>3 DEF Moves, ExecutorRow
    <3>5. QED
      BY <2>1, <3>1, <3>4 DEF Fits
  <2>4. Moves(e) /\ Fits(ex'[e])
    BY <1>12, <2>2, <2>3 DEF Verified
  <2>5. QED
    BY <1>0, <1>4, <1>12, <2>1, <2>4 DEF Verified, CallStates
<1>13. CASE Record(e)
  <2>1. Moves(e) /\ Fits(ex'[e])
    BY <1>0, <1>1, <1>3, <1>13 DEF Record, Fits
  <2>2. run' \in RunRow
    <3>1. 0 \in 0 .. MaxChurn + 1
      BY LimitsAssumption
    <3>2. QED
      BY <1>0, <1>13, <3>1 DEF Record, RunRow
  <2>3. report' \in ReportRow
    <3>1. ex[e].act.what \in BOOLEAN
      BY <1>0, <1>13 DEF Record, Fits, VerdictActs
    <3>2. Hash \in Hashes /\ Len(calls) \in Nat /\ run.gen \in Nat
      BY <1>0, HashType, NextGeneration DEF RowsAreTyped
    <3>3. ex[e].seen \in Hashes \cup {None} /\ ex[e].token \in Nat
      BY <1>0 DEF ExecutorRow
    <3>4. QED
      BY <1>13, <3>1, <3>2, <3>3 DEF Record, ReportRow
  <2>4. QED
    BY <1>0, <1>13, <2>1, <2>2, <2>3 DEF Record, RowsAreTyped, Moves
<1>14. QED
  BY <1>7, <1>8, <1>9, <1>10, <1>11, <1>12, <1>13

\* The steps around packages and tools.
LEMMA ToolTypes ==
  ASSUME Typed, NEW e \in Executors,
         \/ Apply(e) \/ Relate(e) \/ Note(e) \/ OpenStep(e)
         \/ ToolError(e, "failed") \/ ToolError(e, "broken") \/ ToolAnswer(e) \/ Counter(e)
  PROVE  StepKeepsTypes(e)
<1> USE DEF Typed
<1> USE DEF StepKeepsTypes
<1>0. RowsAreTyped /\ Fits(ex[e]) /\ ex \in [Executors -> ExecutorRow] /\ run \in RunRow
  BY DEF RowsAreTyped
<1>1. ASSUME NEW l \in {"gap", "repeats", "verify", "budget", "counter"}, Goto(e, l), ex[e].round < MaxIterations
      PROVE  Moves(e) /\ Fits(ex'[e])
  BY <1>0, <1>1, Going DEF Fits, Labels, Writes, KeepsHands
<1>2. ASSUME Raise(e) PROVE Moves(e) /\ Fits(ex'[e])
  BY <1>0, <1>2, Raising DEF Fits
<1>3. ASSUME NextRound(e), ex[e].round < MaxIterations PROVE Moves(e) /\ Fits(ex'[e])
  BY <1>0, <1>3, Rounding DEF Fits
<1>4. ASSUME run' \in RunRow, UNCHANGED <<steps, calls, report, level, moved, taken>>, Moves(e)
      PROVE  RowsAreTyped'
  BY <1>0, <1>4 DEF RowsAreTyped, Moves
<1>5. ASSUME run' \in RunRow, steps' \in [Keys -> StepRow],
             UNCHANGED <<calls, report, level, moved, taken>>, Moves(e)
      PROVE  RowsAreTyped'
  BY <1>0, <1>5 DEF RowsAreTyped, Moves
<1>6. ASSUME NEW l \in {"tool", "tooling", "reading"}, Goto(e, l), ex[e].round < MaxIterations,
             ex[e].act \in ToolActs
      PROVE  Moves(e) /\ Fits(ex'[e])
  BY <1>0, <1>6, Going DEF Fits, Labels, Writes, KeepsHands
<1>7. CASE Apply(e)
  <2>1. ex[e].act \in PackageActs /\ ex[e].act.what \in Packages /\ ex[e].round < MaxIterations
    BY <1>0, <1>7 DEF Apply, Fits, PackageActs
  <2>2. run' \in RunRow
    BY <1>0, <1>7, <2>1 DEF Apply, RunRow
  <2>3. Moves(e) /\ Fits(ex'[e])
    BY <1>0, <1>7, <2>1, Going DEF Apply, Fits, Labels, Writes, KeepsHands
  <2>4. QED
    BY <1>4, <1>7, <2>2, <2>3 DEF Apply
<1>8. CASE Relate(e)
  <2>1. ex[e].act \in PackageActs /\ ex[e].act.what \in Packages /\ ex[e].round < MaxIterations
    BY <1>0, <1>8 DEF Relate, Fits, PackageActs
  <2>2. run' \in RunRow
    BY <1>0, <1>8, <2>1 DEF Relate, RunRow
  <2>3. Goto(e, "gap") \/ Goto(e, "note")
    BY <1>8 DEF Relate
  <2>4. Moves(e) /\ Fits(ex'[e])
    BY <1>0, <1>1, <2>1, <2>3, Going DEF Fits, Labels, Writes, KeepsHands
  <2>5. QED
    BY <1>4, <1>8, <2>2, <2>4 DEF Relate
<1>9. CASE Note(e)
  <2> DEFINE f == Fingerprint(e)
             n == IF f = None THEN 0 ELSE IF run.repeated.of = f THEN run.repeated.times + 1 ELSE 1
  <2>1. ex[e].act \in ToolActs \cup ClarifyActs \cup PackageActs /\ ex[e].round < MaxIterations
    BY <1>0, <1>9 DEF Note, Fits
  <2>2. ex[e].act.kind \in {"tool", "clarify", "package"}
    BY <2>1 DEF ToolActs, ClarifyActs, PackageActs
  <2>3. f \in Prints /\ n \in Nat
    <3>1. run.repeated.times \in Nat
      BY <1>0 DEF RunRow
    <3>2. QED
      BY <1>9, <3>1, PrintType DEF Note
  <2>4. /\ run' = [run EXCEPT !.repeated = [of |-> f, times |-> n]]
        /\ IF n > MaxRepeats THEN Goto(e, "repeats")
           ELSE CASE ex[e].act.kind = "tool"    -> Goto(e, "tool")
                  [] ex[e].act.kind = "clarify" -> Goto(e, "clarify")
                  [] ex[e].act.kind = "package" -> IF PreBlocked THEN NextRound(e)
                                                   ELSE Goto(e, "verify")
        /\ UNCHANGED <<steps, calls, report, level, moved, taken>>
    BY <1>9 DEF Note
  <2> HIDE DEF f, n
  <2>5. run' \in RunRow
    BY <1>0, <2>3, <2>4 DEF RunRow
  <2>6. Moves(e) /\ Fits(ex'[e])
    <3>1. CASE n > MaxRepeats
      BY <1>1, <2>1, <2>4, <3>1
    <3>2. CASE ~(n > MaxRepeats) /\ ex[e].act.kind = "tool"
      <4>1. ex[e].act \in ToolActs /\ Goto(e, "tool")
        BY <2>1, <2>4, <3>2 DEF ToolActs, ClarifyActs, PackageActs
      <4>2. QED
        BY <1>6, <2>1, <4>1
    <3>3. CASE ~(n > MaxRepeats) /\ ex[e].act.kind = "clarify"
      <4>1. ex[e].act \in ClarifyActs /\ Goto(e, "clarify")
        BY <2>1, <2>4, <3>3 DEF ToolActs, ClarifyActs, PackageActs
      <4>2. QED
        BY <1>0, <2>1, <4>1, Going DEF Fits, Labels, Writes, KeepsHands
    <3>4. CASE ~(n > MaxRepeats) /\ ex[e].act.kind = "package"
      BY <1>1, <1>3, <2>1, <2>4, <3>4
    <3>5. QED
      BY <2>2, <3>1, <3>2, <3>3, <3>4
  <2>7. QED
    BY <1>4, <2>4, <2>5, <2>6
<1>10. CASE OpenStep(e)
  <2> DEFINE k == ex[e].act.what
  <2>1. ex[e].act \in ToolActs /\ k \in Keys /\ ex[e].round < MaxIterations
    BY <1>0, <1>10 DEF OpenStep, Fits, ToolActs
  <2>2. Moves(e) /\ Fits(ex'[e])
    BY <1>1, <1>2, <1>6, <1>10, <2>1 DEF OpenStep
  <2>3. steps' \in [Keys -> StepRow]
    <3>1. CASE UNCHANGED steps
      BY <1>0, <3>1 DEF RowsAreTyped
    <3>2. CASE Runnable(k) /\ steps' = [steps EXCEPT ![k] = [st |-> "running", tries |-> @.tries + 1]]
      <4>1. steps[k] \in StepRow
        BY <1>0, <2>1 DEF RowsAreTyped
      <4>2. steps[k].tries + 1 \in 0 .. 2
        BY <1>0, <2>1, <3>2, <4>1 DEF Runnable, StepRow
      <4>3. QED
        BY <1>0, <3>2, <4>1, <4>2 DEF RowsAreTyped, StepRow, StepStates
    <3>3. QED
      BY <1>10, <3>1, <3>2 DEF OpenStep
  <2>4. run' \in RunRow
    <3>1. CASE UNCHANGED run
      BY <1>0, <3>1
    <3>2. CASE ex[e].pc = "read" /\ ~(run.reads >= MaxReads) /\ run' = [run EXCEPT !.reads = @ + 1]
      <4>1. run.reads \in 0 .. MaxReads /\ MaxReads \in Nat
        BY <1>0, LimitsAssumption DEF RunRow
      <4>2. run.reads + 1 \in 0 .. MaxReads
        BY <3>2, <4>1
      <4>3. QED
        BY <1>0, <3>2, <4>2 DEF RunRow
    <3>3. CASE ~InReserve /\ run' = [run EXCEPT !.tools = @ + 1]
      <4>1. run.tools \in 0 .. MaxTools /\ MaxTools \in Nat
        BY <1>0, LimitsAssumption DEF RunRow
      <4>2. ~(run.tools >= MaxTools)
        BY <3>3 DEF InReserve, Spent
      <4>3. run.tools + 1 \in 0 .. MaxTools
        BY <4>1, <4>2
      <4>4. QED
        BY <1>0, <3>3, <4>3 DEF RunRow
    <3>4. QED
      BY <1>10, <3>1, <3>2, <3>3 DEF OpenStep
  <2>5. QED
    BY <1>5, <1>10, <2>2, <2>3, <2>4 DEF OpenStep
<1>11. ASSUME NEW st \in {"failed", "broken"}, ToolError(e, st) PROVE StepKeepsTypes(e)
  <2>1. ex[e].act.what \in Keys
    BY <1>0, <1>11 DEF ToolError, Fits, ToolActs
  <2>2. steps' \in [Keys -> StepRow]
    BY <1>0, <1>11, <2>1 DEF ToolError, RowsAreTyped, StepRow, StepStates
  <2>3. QED
    BY <1>0, <1>2, <1>5, <1>11, <2>2 DEF ToolError
<1>12. CASE ToolAnswer(e)
  <2> DEFINE k == ex[e].act.what
  <2>1. ex[e].act \in ToolActs /\ k \in Keys /\ ex[e].round < MaxIterations
    BY <1>0, <1>12 DEF ToolAnswer, Fits, ToolActs
  <2>2. steps' \in [Keys -> StepRow]
    BY <1>0, <1>12, <2>1, SMTT(30) DEF ToolAnswer, RowsAreTyped, StepRow, StepStates
  <2>3. run' \in RunRow
    <3>1. CASE UNCHANGED run
      BY <1>0, <3>1
    <3>2. CASE run' = [run EXCEPT !.since = 0, !.fresh = TRUE, !.searched = @ \/ k \in Searches,
                                  !.processed = IF k \in Searches THEN Hits[k] = {} ELSE @]
      <4>1. PICK s \in BOOLEAN : s = (run.searched \/ k \in Searches)
        OBVIOUS
      <4>2. PICK p \in BOOLEAN : p = (IF k \in Searches THEN Hits[k] = {} ELSE run.processed)
        BY <1>0 DEF RunRow
      <4>3. 0 \in 0 .. MaxChurn + 1
        BY LimitsAssumption
      <4>4. run' = [run EXCEPT !.since = 0, !.fresh = TRUE, !.searched = s, !.processed = p]
        BY <3>2, <4>1, <4>2
      <4>5. QED
        BY <1>0, <4>3, <4>4 DEF RunRow
    <3>3. QED
      BY <1>12, <3>1, <3>2 DEF ToolAnswer
  <2>4. Moves(e) /\ Fits(ex'[e])
    BY <1>1, <1>2, <1>12, <2>1 DEF ToolAnswer
  <2>5. QED
    BY <1>5, <1>12, <2>2, <2>3, <2>4 DEF ToolAnswer
<1>13. CASE Counter(e)
  <2>1. ex[e].round < MaxIterations
    BY <1>0, <1>13 DEF Counter, Fits
  <2>2. PICK p \in BOOLEAN : p = (run.processed \/ (run.searched
                                   /\ \A s \in Searches \cap Succeeded : Hits[s] \subseteq Succeeded))
    OBVIOUS
  <2>3. run' = [run EXCEPT !.processed = p]
    BY <1>13, <2>2 DEF Counter
  <2>4. run' \in RunRow
    BY <1>0, <2>3 DEF RunRow
  <2>5. QED
    BY <1>3, <1>4, <1>13, <2>1, <2>4 DEF Counter
<1>14. QED
  BY <1>7, <1>8, <1>9, <1>10, <1>11, <1>12, <1>13

\* The steps of people, of time, and of a run that has ended.
Outside == Continue \/ Abort \/ Recover \/ Burn \/ EditProcess \/ Ended \/ UNCHANGED vars

\* The rows keep their types when people and time act.
LEMMA OutsideTypes ==
  ASSUME Typed, Outside
  PROVE  RowsAreTyped' /\ (UNCHANGED ex \/ UNCHANGED vars)
<1> USE DEF Typed
<1>0. RowsAreTyped /\ run \in RunRow /\ taken \in 0 .. MaxHandovers /\ MaxHandovers \in Nat
  BY LimitsAssumption DEF RowsAreTyped
<1>1. ASSUME run' \in RunRow, UNCHANGED <<steps, calls, report, ex>>,
             level' \in {"open", "reserve", "spent"}, moved' \in BOOLEAN, taken' \in 0 .. MaxHandovers
      PROVE  RowsAreTyped'
  BY <1>0, <1>1 DEF RowsAreTyped
<1>2. CASE Continue
  <2>1. run.inputs + 1 \in 0 .. MaxHandovers
    <3>1. run.inputs \in 0 .. MaxHandovers
      BY <1>0 DEF RunRow
    <3>2. QED
      BY <1>0, <1>2, <3>1 DEF Continue
  <2>2. 0 \in 0 .. MaxChurn + 1
    BY LimitsAssumption
  <2>3. run' \in RunRow
    BY <1>0, <1>2, <2>1, <2>2, NextGeneration DEF Continue, RunRow
  <2>4. QED
    BY <1>0, <1>1, <1>2, <2>3 DEF Continue, RowsAreTyped
<1>3. CASE Abort
  <2>1. run' \in RunRow
    BY <1>0, <1>3, NextGeneration DEF Abort, RunRow, Terminal
  <2>2. QED
    BY <1>0, <1>1, <1>3, <2>1 DEF Abort, RowsAreTyped
<1>4. CASE Recover
  <2>1. run' \in RunRow
    BY <1>0, <1>4, NextGeneration DEF Recover, RunRow
  <2>2. taken + 1 \in 0 .. MaxHandovers
    <3>1. run.inputs \in 0 .. MaxHandovers
      BY <1>0 DEF RunRow
    <3>2. QED
      BY <1>0, <1>4, <3>1 DEF Recover
  <2>3. QED
    BY <1>0, <1>1, <1>4, <2>1, <2>2 DEF Recover, RowsAreTyped
<1>5. CASE Burn
  BY <1>0, <1>1, <1>5 DEF Burn, RowsAreTyped
<1>6. CASE EditProcess
  BY <1>0, <1>1, <1>6 DEF EditProcess, RowsAreTyped
<1>7. CASE Ended \/ UNCHANGED vars
  BY <1>0, <1>7 DEF Ended, vars, RowsAreTyped
<1>8. QED
  BY <1>2, <1>3, <1>4, <1>5, <1>6, <1>7 DEF Outside, Continue, Abort, Recover, Burn, EditProcess

\* A step of the loop is a step of an executor or comes from outside.
LEMMA StepsOfTheLoop ==
  ASSUME [LoopNext]_vars
  PROVE  Outside \/ \E e \in Executors : Step(e) \/ Crash(e)
  BY DEF LoopNext, Outside

\* Every step of an executor keeps the types.
LEMMA ExecutorTypes ==
  ASSUME Typed, NEW e \in Executors, Step(e) \/ Crash(e)
  PROVE  StepKeepsTypes(e)
  BY ControlTypes, CallTypes, ToolTypes DEF Step

\* Every step of the loop keeps the types.
LEMMA LoopTypesStep ==
  ASSUME Typed, [LoopNext]_vars
  PROVE  RowsAreTyped' /\ (\A e \in Executors : Fits(ex[e]))'
<1>1. CASE Outside
  BY <1>1, OutsideTypes DEF Typed, vars
<1>2. ASSUME NEW e \in Executors, Step(e) \/ Crash(e)
      PROVE  RowsAreTyped' /\ (\A f \in Executors : Fits(ex[f]))'
  <2>1. StepKeepsTypes(e)
    BY <1>2, ExecutorTypes
  <2>2. ASSUME NEW f \in Executors PROVE Fits(ex'[f])
    BY <2>1 DEF StepKeepsTypes, Moves, Typed
  <2>3. QED
    BY <2>1, <2>2 DEF StepKeepsTypes
<1>3. QED
  BY <1>1, <1>2, StepsOfTheLoop

----------------------------------------------------------------------------
(* Which steps touch the run's status and its generation. *)

\* The run ends, and its token is given up.
Ends == run.status \notin Terminal /\ run'.status \in Terminal /\ run'.gen = run.gen + 1

\* An executor that has left, or is still at work under the token it had.
Leaves(e) == Working(e) /\ ex'[e].pc = "done" /\ ex'[e].token = 0
Stays(e)  == Working(e) /\ ex'[e].pc \notin {"idle", "done"} /\ ex'[e].token = ex[e].token

\* The owner ends the run and leaves, or goes on to report what failed.
EndsRun(e) ==
  /\ Ends /\ ex[e].token = run.gen
  /\ Leaves(e) \/ (run'.status = "failed" /\ Stays(e) /\ ex'[e].pc = "raised")

\* Only Start makes an executor work, with the run's token; only four handlers
\* change the run's status, and its generation moves when the run ends.
LEMMA StepOfOwner ==
  ASSUME Typed, NEW e \in Executors, Step(e) \/ Crash(e)
  PROVE  /\ Moves(e) /\ UNCHANGED taken
         /\ \/ Start(e) /\ ex'[e].pc = "loop" /\ ex'[e].token = run.gen /\ UNCHANGED run
            \/ Leaves(e) \/ Stays(e)
         /\ \/ UNCHANGED <<run.status, run.gen>>
            \/ Suspend(e) /\ Leaves(e) /\ run'.status = "waiting" /\ UNCHANGED run.gen
            \/ (MakeReady(e) \/ Fail(e) \/ FailExecution(e)) /\ EndsRun(e)
<1>0. RowsAreTyped /\ Fits(ex[e]) /\ ex \in [Executors -> ExecutorRow] /\ run \in RunRow
  BY DEF Typed, RowsAreTyped
<1>1. Moves(e)
  BY ExecutorTypes DEF StepKeepsTypes
<1>2. ASSUME NEW l \in Labels \ {"idle", "done"}, Goto(e, l), Working(e) PROVE Stays(e)
  BY <1>0, <1>2, Going DEF KeepsHands, Stays
<1>3. ASSUME Raise(e), Working(e) PROVE Stays(e)
  BY <1>0, <1>3, Raising DEF Stays
<1>4. ASSUME NextRound(e), Working(e), ex[e].round < MaxIterations PROVE Stays(e)
  BY <1>0, <1>4, Rounding DEF Stays
<1>5. ASSUME Quit(e), Working(e) PROVE Leaves(e)
  BY <1>0, <1>5, Quitting DEF Leaves
<1>6. ASSUME NEW l \in {"note", "apply", "record"}, NEW what, Then(e, l, what), Working(e) PROVE Stays(e)
  BY <1>0, <1>6 DEF Then, Stays, ExecutorRow
<1> DEFINE Same == UNCHANGED <<run.status, run.gen>>
<1>7. CASE Start(e)
  BY <1>0, <1>1, <1>7 DEF Start, Idle, ExecutorRow
<1>8. CASE Advance(e)
  <2>1. Working(e) /\ UNCHANGED <<run, taken>>
    BY <1>8 DEF Advance, Working
  <2>2. Stays(e)
    BY <1>2, <1>3, <1>8, <2>1, RouteIsPlace DEF Advance, Labels, Writes
  <2>3. QED
    BY <1>1, <2>1, <2>2
<1>9. CASE Lockout(e) \/ Crash(e)
  <2>1. Working(e) /\ UNCHANGED <<run, taken>> /\ Raise(e)
    BY <1>9 DEF Lockout, Crash, Working, Writes
  <2>2. QED
    BY <1>1, <1>3, <2>1
<1>10. CASE Suspend(e)
  <2>1. Working(e) /\ UNCHANGED taken /\ Quit(e)
    BY <1>10 DEF Suspend, Working
  <2>2. run'.status = "waiting" /\ UNCHANGED run.gen
    BY <1>0, <1>10 DEF Suspend, RunRow
  <2>3. QED
    BY <1>1, <1>5, <1>10, <2>1, <2>2
<1>11. CASE MakeReady(e) \/ Fail(e) \/ FailExecution(e)
  <2>1. Working(e) /\ UNCHANGED taken /\ (Quit(e) \/ Raise(e))
    BY <1>11 DEF MakeReady, Fail, FailExecution, Working
  <2>2. Leaves(e) \/ Stays(e)
    BY <1>3, <1>5, <2>1
  <2>3. CASE UNCHANGED run
    BY <1>1, <1>11, <2>1, <2>2, <2>3
  <2>4. ASSUME NEW st \in {"ready", "failed"}, NEW r \in Reasons \cup {""}, Active,
               run' = [run EXCEPT !.status = st, !.reason = r, !.gen = run.gen + 1]
        PROVE  Ends /\ run'.status = st
    BY <1>0, <2>4 DEF RunRow, Ends, Terminal, Active
  <2>5. CASE MakeReady(e) /\ ~UNCHANGED run
    <3>1. run' = [run EXCEPT !.status = "ready", !.gen = run.gen + 1] /\ Quit(e) /\ Fenced(e)
      BY <2>5 DEF MakeReady
    <3>2. [run EXCEPT !.status = "ready", !.gen = run.gen + 1]
            = [run EXCEPT !.status = "ready", !.reason = run.reason, !.gen = run.gen + 1]
      BY <1>0 DEF RunRow
    <3>3. run.reason \in Reasons \cup {""}
      BY <1>0 DEF RunRow
    <3>4. EndsRun(e) /\ Leaves(e)
      BY <1>5, <2>1, <2>4, <3>1, <3>2, <3>3 DEF EndsRun, Fenced
    <3>5. QED
      BY <1>1, <1>11, <2>1, <2>5, <3>4
  <2>6. CASE (Fail(e) \/ FailExecution(e)) /\ ~UNCHANGED run
    <3>1. /\ run' = [run EXCEPT !.status = "failed", !.reason = "technical_failure", !.gen = run.gen + 1]
          /\ Active /\ ex[e].token = run.gen
      BY <2>6 DEF Fail, FailExecution, Fenced, Active
    <3>2. Ends /\ run'.status = "failed"
      BY <2>4, <3>1 DEF Reasons
    <3>3. EndsRun(e)
      BY <1>0, <1>3, <1>5, <2>1, <3>1, <3>2, Raising DEF EndsRun
    <3>4. QED
      BY <1>1, <1>11, <2>1, <2>2, <2>6, <3>3
  <2>7. QED
    BY <1>11, <2>3, <2>5, <2>6
<1> DEFINE Calling == \/ Ask(e) \/ Error(e, "failed") \/ Error(e, "fatal") \/ LateAnswer(e)
                      \/ Planned(e) \/ Synthesized(e) \/ Verified(e) \/ Record(e)
           Tooling == \/ Apply(e) \/ Relate(e) \/ Note(e) \/ OpenStep(e) \/ ToolError(e, "failed")
                      \/ ToolError(e, "broken") \/ ToolAnswer(e) \/ Counter(e)
<1>12. CASE Calling
  <2>1. Working(e) /\ UNCHANGED taken /\ ex[e].round < MaxIterations
    BY <1>0, <1>12 DEF Working, Fits, Ask, Error, LateAnswer, Planned, Synthesized, Verified, Record, Accepted
  <2>2. Same
    BY <1>0, <1>12 DEF RunRow, Ask, Error, LateAnswer, Planned, Synthesized, Verified, Record
  <2>3. ASSUME Ask(e) PROVE Stays(e)
    BY <1>0, <1>2, <2>1, <2>3 DEF Ask, Stays, Labels, Writes, ExecutorRow
  <2>4. ASSUME Error(e, "failed") \/ Error(e, "fatal") \/ LateAnswer(e) \/ Record(e) PROVE Stays(e)
    BY <1>2, <1>3, <1>4, <2>1, <2>4 DEF Error, LateAnswer, Record, Labels, Writes
  <2>5. ASSUME Planned(e) PROVE Stays(e)
    BY <1>2, <1>6, <2>1, <2>5 DEF Planned, Labels, Writes
  <2>6. ASSUME Synthesized(e) PROVE Stays(e)
    BY <1>4, <1>6, <2>1, <2>6 DEF Synthesized
  <2>7. ASSUME Verified(e) PROVE Stays(e)
    <3>1. ASSUME NEW k, ex' = [ex EXCEPT ![e].pc = "read", ![e].act = [kind |-> "tool", what |-> k],
                                         ![e].asked = @ \cup {k}]
          PROVE  Stays(e)
      <4>1. ex'[e] = [ex[e] EXCEPT !.pc = "read", !.act = [kind |-> "tool", what |-> k],
                                   !.asked = ex[e].asked \cup {k}]
        BY <1>0, <3>1
      <4>2. ex[e] \in ExecutorRow
        BY <1>0
      <4>3. ex'[e].pc = "read" /\ ex'[e].token = ex[e].token
        BY <4>1, <4>2 DEF ExecutorRow
      <4>4. QED
        BY <2>1, <4>3 DEF Stays
    <3>2. QED
      BY <1>6, <2>1, <2>7, <3>1 DEF Verified
  <2>8. QED
    BY <1>1, <1>12, <2>1, <2>2, <2>3, <2>4, <2>5, <2>6, <2>7
<1>13. CASE Tooling
  <2>1. Working(e) /\ UNCHANGED taken /\ ex[e].round < MaxIterations
    BY <1>0, <1>13 DEF Working, Fits, Apply, Relate, Note, OpenStep, ToolError, ToolAnswer, Counter
  <2>2. Same
    BY <1>0, <1>13 DEF RunRow, Apply, Relate, Note, OpenStep, ToolError, ToolAnswer, Counter
  <2>3. ASSUME Apply(e) \/ Relate(e) \/ OpenStep(e) \/ ToolError(e, "failed") \/ ToolError(e, "broken")
             \/ ToolAnswer(e) \/ Counter(e) PROVE Stays(e)
    BY <1>2, <1>3, <1>4, <2>1, <2>3 DEF Apply, Relate, OpenStep, ToolError, ToolAnswer, Counter, Labels, Writes
  <2>4. ASSUME Note(e) PROVE Stays(e)
    <3>1. ex[e].act.kind \in {"tool", "clarify", "package"}
      BY <1>0, <2>4 DEF Note, Fits, ToolActs, ClarifyActs, PackageActs
    <3>2. QED
      BY <1>2, <1>4, <2>1, <2>4, <3>1 DEF Note, Labels, Writes
  <2>5. QED
    BY <1>1, <1>13, <2>1, <2>2, <2>3, <2>4
<1>14. QED
  BY <1>7, <1>8, <1>9, <1>10, <1>11, <1>12, <1>13 DEF Step

\* An executor that raised, or whose process died, only reports it.
LEMMA RaisedReports ==
  ASSUME Typed, NEW e \in Executors, Step(e) \/ Crash(e), ex[e].pc = "raised"
  PROVE  FailExecution(e) /\ Leaves(e)
<1>1. FailExecution(e)
  BY DEF Step, Start, Advance, Lockout, Writes, Suspend, MakeReady, Fail, Ask, Error, LateAnswer, Accepted,
         Planned, Synthesized, Verified, Record, Apply, Relate, Note, OpenStep, ToolError, ToolAnswer,
         Counter, Crash
<1>2. QED
  BY <1>1, Quitting DEF FailExecution, Leaves, Working, Typed, RowsAreTyped

----------------------------------------------------------------------------
(* Tokens tell the executors apart. *)

\* Tokens and who may hold them, after every step.
LEMMA TokensStep ==
  ASSUME Typed, TokensTell, NobodyElse, [LoopNext]_vars
  PROVE  TokensTell' /\ NobodyElse'
<1>0. /\ run \in RunRow /\ run.gen \in Nat /\ taken \in Nat
      /\ ex \in [Executors -> ExecutorRow] /\ \A f \in Executors : ex[f].token \in Nat
  BY LimitsAssumption, NextGeneration DEF Typed, RowsAreTyped, ExecutorRow
<1>1. ASSUME NEW e \in Executors, Step(e) \/ Crash(e) PROVE TokensTell' /\ NobodyElse'
  <2>1. /\ \A f \in Executors \ {e} : ex'[f] = ex[f]
        /\ UNCHANGED taken
    BY <1>1, StepOfOwner DEF Moves
  <2>2. CASE UNCHANGED <<run.status, run.gen>>
    <3>1. CASE Start(e) /\ ex'[e].pc = "loop" /\ ex'[e].token = run.gen
      BY <1>0, <2>1, <2>2, <3>1 DEF Start, TokensTell, NobodyElse, Working, Active
    <3>2. CASE Leaves(e)
      BY <1>0, <2>1, <2>2, <3>2 DEF Leaves, TokensTell, NobodyElse, Working, Active
    <3>3. CASE Stays(e)
      <4>1. ex[e].pc # "raised"
        BY <1>1, <3>3, RaisedReports DEF Leaves, Stays
      <4>2. QED
        BY <1>0, <2>1, <2>2, <3>3, <4>1 DEF Stays, TokensTell, NobodyElse, Working, Active
    <3>4. QED
      BY <1>1, <3>1, <3>2, <3>3, StepOfOwner
  <2>3. CASE Suspend(e) /\ Leaves(e) /\ run'.status = "waiting" /\ UNCHANGED run.gen
    <3>1. ex[e].token = run.gen /\ Working(e) /\ Active
      BY <2>3 DEF Suspend, Fenced, Leaves
    <3>2. QED
      BY <1>0, <2>1, <2>3, <3>1 DEF Leaves, TokensTell, NobodyElse, Working, Active
  <2>4. CASE EndsRun(e)
    <3>1. Active /\ ~Active' /\ ex[e].token = run.gen /\ run'.gen = run.gen + 1 /\ Working(e)
      BY <1>0, <2>4 DEF EndsRun, Ends, RunRow, Active, Terminal, Leaves, Stays
    <3>2. TokensTell'
      BY <1>0, <2>1, <2>4, <3>1 DEF EndsRun, Leaves, Stays, TokensTell, Working, Active
    <3>3. ASSUME taken = 0
          PROVE  \/ \A f \in Executors : ~Working(f)'
                 \/ /\ run'.status = "failed" /\ Stays(e) /\ ex'[e].pc = "raised"
                    /\ \A f \in Executors : Working(f)' => f = e
      <4>1. ASSUME NEW f \in Executors \ {e} PROVE ~Working(f)'
        BY <1>0, <2>1, <3>1, <3>3, <4>1 DEF TokensTell, Working, NobodyElse
      <4>2. QED
        BY <2>4, <4>1 DEF EndsRun, Leaves, Working
    <3>4. NobodyElse'
      BY <1>0, <2>1, <3>1, <3>3 DEF NobodyElse, Stays
    <3>5. QED
      BY <3>2, <3>4
  <2>5. QED
    BY <1>1, <2>2, <2>3, <2>4, StepOfOwner
<1>2. CASE Outside
  <2>1. CASE Continue
    <3>1. UNCHANGED <<ex, taken>> /\ run'.gen = run.gen + 1 /\ run'.status = "running" /\ run.status = "waiting"
      BY <1>0, <2>1 DEF Continue, RunRow
    <3>2. taken = 0 => \A f \in Executors : ~Working(f)
      BY <1>0, <3>1 DEF TokensTell, NobodyElse, Active
    <3>3. QED
      BY <1>0, <3>1, <3>2 DEF TokensTell, NobodyElse, Active, Working
  <2>2. CASE Abort
    <3>1. UNCHANGED <<ex, taken>> /\ run'.gen = run.gen + 1 /\ run'.status = "aborted" /\ Active
      BY <1>0, <2>2 DEF Abort, RunRow
    <3>2. QED
      BY <1>0, <3>1 DEF TokensTell, NobodyElse, Active, Working
  <2>3. CASE Recover
    <3>1. UNCHANGED ex /\ run'.gen = run.gen + 1 /\ run'.status = "running" /\ taken' # 0
      <4>1. taken' # 0
        BY <1>0, <2>3 DEF Recover
      <4>2. QED
        BY <1>0, <2>3, <4>1 DEF Recover, RunRow
    <3>2. QED
      BY <1>0, <3>1 DEF TokensTell, NobodyElse, Working
  <2>4. CASE UNCHANGED <<run, ex, taken>>
    BY <2>4 DEF TokensTell, NobodyElse, Active, Working
  <2>5. QED
    BY <1>2, <2>1, <2>2, <2>3, <2>4 DEF Outside, Burn, EditProcess, Ended, vars
<1>3. QED
  BY <1>1, <1>2, StepsOfTheLoop

----------------------------------------------------------------------------
(* Where a step of an executor leads. *)

\* The places where an executor waits or holds a package are entered one way only.
LEMMA Arrivals ==
  ASSUME Typed, NEW e \in Executors, Step(e) \/ Crash(e)
  PROVE  /\ ex'[e].pc \in {"tooling", "reading"} => OpenStep(e)
         /\ ex'[e].pc = "asked" => Ask(e)
         /\ ex'[e].pc = "apply" => Synthesized(e)
         /\ ex'[e].pc = "relate" => Apply(e)
         /\ ex'[e].pc = "record" => Verified(e)
         /\ ex'[e].pc = "repeats" => Note(e)
         /\ ex'[e].pc = "provider" => Error(e, "failed") \/ Error(e, "fatal")
<1> DEFINE Special == {"tooling", "reading", "asked", "apply", "relate", "record", "repeats", "provider"}
<1>0. Fits(ex[e]) /\ ex \in [Executors -> ExecutorRow]
  BY DEF Typed, RowsAreTyped
<1>1. ASSUME NEW l, Goto(e, l) PROVE ex'[e].pc = l
  BY <1>0, <1>1 DEF Goto, ExecutorRow
<1>2. ASSUME Raise(e) \/ Quit(e) \/ NextRound(e) PROVE ex'[e].pc \in {"raised", "done", "loop"}
  BY <1>0, <1>2 DEF Raise, Quit, NextRound, Idle
<1>3. ASSUME NEW l, NEW what, Then(e, l, what) PROVE ex'[e].pc = l
  BY <1>0, <1>3 DEF Then, ExecutorRow
<1>4. ASSUME Start(e) \/ Advance(e) PROVE ex'[e].pc \notin Special
  <2>1. CASE Start(e)
    BY <1>0, <2>1 DEF Start, Idle
  <2>2. CASE Advance(e)
    BY <1>1, <1>2, <2>2, RouteIsPlace DEF Advance
  <2>3. QED
    BY <1>4, <2>1, <2>2
<1>5. ASSUME \/ Lockout(e) \/ Suspend(e) \/ MakeReady(e) \/ Fail(e) \/ LateAnswer(e) \/ FailExecution(e)
             \/ ToolError(e, "failed") \/ ToolError(e, "broken") \/ Counter(e) \/ Crash(e)
      PROVE  ex'[e].pc \notin Special
  BY <1>2, <1>5 DEF Lockout, Suspend, MakeReady, Fail, LateAnswer, FailExecution, ToolError, Counter, Crash
<1>6. ASSUME Planned(e) \/ Record(e) \/ Relate(e) \/ ToolAnswer(e) PROVE ex'[e].pc \notin Special
  BY <1>1, <1>2, <1>3, <1>6 DEF Planned, Record, Relate, ToolAnswer
<1>7. ASSUME Ask(e) PROVE ex'[e].pc \in {"budget", "asked"}
  BY <1>0, <1>1, <1>7 DEF Ask, ExecutorRow
<1>8. ASSUME NEW st, Error(e, st) PROVE ex'[e].pc \in {"loop", "raised", "done", "provider"}
  BY <1>1, <1>2, <1>8 DEF Error
<1>9. ASSUME Synthesized(e) PROVE ex'[e].pc \in {"apply", "note", "loop", "raised", "done"}
  BY <1>2, <1>3, <1>9 DEF Synthesized
<1>10. ASSUME Verified(e) PROVE ex'[e].pc \in {"record", "read"}
  BY <1>0, <1>3, <1>10, ZenonT(40) DEF Verified, ExecutorRow
<1>11. ASSUME Apply(e) PROVE ex'[e].pc = "relate"
  BY <1>1, <1>11 DEF Apply
<1>12. ASSUME Note(e) PROVE ex'[e].pc \notin Special \ {"repeats"}
  <2>1. ex[e].act.kind \in {"tool", "clarify", "package"}
    BY <1>0, <1>12 DEF Note, Fits, ToolActs, ClarifyActs, PackageActs
  <2>2. QED
    BY <1>1, <1>2, <1>12, <2>1 DEF Note
<1>13. ASSUME OpenStep(e) PROVE ex'[e].pc \notin Special \ {"tooling", "reading"}
  BY <1>1, <1>2, <1>13 DEF OpenStep
<1>14. QED
  BY <1>4, <1>5, <1>6, <1>7, <1>8, <1>9, <1>10, <1>11, <1>12, <1>13 DEF Step

HoldsTool(e) == ex[e].pc \in {"tooling", "reading"}

\* A step is opened, settled by the executor that holds it, or discarded with the run.
Opens(e) ==
  /\ Runnable(ex[e].act.what) /\ ex'[e].act = ex[e].act /\ ex'[e].token = ex[e].token
  /\ steps'[ex[e].act.what].st = "running"
  /\ \A k \in Keys \ {ex[e].act.what} : steps'[k] = steps[k]

Closes(e) ==
  /\ HoldsTool(e) /\ ~HoldsTool(e)' /\ steps'[ex[e].act.what].st # "running"
  /\ \A k \in Keys \ {ex[e].act.what} : steps'[k] = steps[k]

Discards ==
  /\ run.status = "running" /\ run'.status = "failed"
  /\ \A k \in Keys : /\ steps[k].st = "running" => steps'[k].st = "discarded"
                     /\ steps[k].st # "running" => steps'[k] = steps[k]

\* What a step of the loop may do to the tool steps.
LEMMA StepsChange ==
  ASSUME Typed, NEW e \in Executors, Step(e) \/ Crash(e)
  PROVE  /\ ex'[e].pc \in {"tooling", "reading"} => Opens(e)
         /\ UNCHANGED steps \/ (Opens(e) /\ HoldsTool(e)') \/ Closes(e) \/ (Discards /\ FailExecution(e))
<1>0. /\ RowsAreTyped /\ Fits(ex[e]) /\ ex \in [Executors -> ExecutorRow] /\ run \in RunRow
      /\ steps \in [Keys -> StepRow]
  BY DEF Typed, RowsAreTyped
<1>1. ASSUME OpenStep(e) PROVE (UNCHANGED steps /\ ~HoldsTool(e)') \/ (Opens(e) /\ HoldsTool(e)')
  <2>1. ex[e].act.what \in Keys
    BY <1>0, <1>1 DEF OpenStep, Fits, ToolActs
  <2>2. ASSUME NEW l \in {"verify", "counter", "budget"}, Goto(e, l) \/ Raise(e) PROVE ~HoldsTool(e)'
    BY <1>0, <2>2, Raising DEF Goto, HoldsTool, ExecutorRow
  <2>3. ASSUME NEW l \in {"tooling", "reading"}, Goto(e, l), Runnable(ex[e].act.what),
               steps' = [steps EXCEPT ![ex[e].act.what] = [st |-> "running", tries |-> @.tries + 1]]
        PROVE  Opens(e) /\ HoldsTool(e)'
    BY <1>0, <2>1, <2>3 DEF Goto, Opens, HoldsTool, ExecutorRow
  <2>4. QED
    BY <1>1, <2>2, <2>3 DEF OpenStep
<1>2. ASSUME NEW st \in {"failed", "broken"}, ToolError(e, st) PROVE UNCHANGED steps \/ Closes(e)
  <2>1. ex[e].act.what \in Keys
    BY <1>0, <1>2 DEF ToolError, Fits, ToolActs
  <2>2. HoldsTool(e) /\ ~HoldsTool(e)'
    BY <1>0, <1>2, Raising DEF ToolError, HoldsTool
  <2>3. QED
    BY <1>0, <1>2, <2>1, <2>2 DEF ToolError, Closes, StepRow
<1>3. ASSUME ToolAnswer(e) PROVE Closes(e)
  <2>1. ex[e].act.what \in Keys
    BY <1>0, <1>3 DEF ToolAnswer, Fits, ToolActs
  <2>2. HoldsTool(e) /\ ~HoldsTool(e)'
    BY <1>0, <1>3, Raising DEF ToolAnswer, HoldsTool, Goto, ExecutorRow
  <2>3. QED
    BY <1>0, <1>3, <2>1, <2>2 DEF ToolAnswer, Closes, StepRow
<1>4. ASSUME FailExecution(e) PROVE UNCHANGED steps \/ Discards
  <2>1. CASE run.status = "running" /\ ex[e].token = run.gen
    <3>1. run'.status = "failed"
      BY <1>0, <1>4, <2>1 DEF FailExecution, RunRow
    <3>2. steps' = [k \in Keys |-> IF steps[k].st = "running"
                                   THEN [steps[k] EXCEPT !.st = "discarded"] ELSE steps[k]]
      BY <1>4, <2>1 DEF FailExecution
    <3>3. ASSUME NEW k \in Keys
          PROVE  /\ steps[k].st = "running" => steps'[k].st = "discarded"
                 /\ steps[k].st # "running" => steps'[k] = steps[k]
      BY <1>0, <3>2 DEF StepRow
    <3>4. QED
      BY <2>1, <3>1, <3>3 DEF Discards
  <2>2. CASE ~(run.status = "running" /\ ex[e].token = run.gen)
    BY <1>4, <2>2 DEF FailExecution
  <2>3. QED
    BY <2>1, <2>2
<1>5. ASSUME ~OpenStep(e), ~ToolError(e, "failed"), ~ToolError(e, "broken"), ~ToolAnswer(e), ~FailExecution(e)
      PROVE  UNCHANGED steps
  BY <1>5 DEF Step, Start, Advance, Lockout, Suspend, MakeReady, Fail, Ask, Error, LateAnswer, Planned,
         Synthesized, Verified, Record, Apply, Relate, Note, Counter, Crash
<1>6. ex'[e].pc \in {"tooling", "reading"} => Opens(e)
  BY <1>1, Arrivals DEF HoldsTool
<1>7. QED
  BY <1>1, <1>2, <1>3, <1>4, <1>5, <1>6

\* A step that succeeded stays so: nobody else holds it.
LEMMA SuccessStays ==
  ASSUME Typed, StepsAreHeld, [LoopNext]_vars
  PROVE  Succeeded \subseteq Succeeded'
<1>1. CASE Outside
  BY <1>1 DEF Outside, Continue, Abort, Recover, Burn, EditProcess, Ended, vars, Succeeded
<1>2. ASSUME NEW e \in Executors, Step(e) \/ Crash(e) PROVE Succeeded \subseteq Succeeded'
  BY <1>2, StepsChange DEF Succeeded, Opens, Closes, Discards, Runnable, StepsAreHeld, HoldsTool
<1>3. QED
  BY <1>1, <1>2, StepsOfTheLoop

\* No two executors hold the same step, and what they hold is open or discarded.
LEMMA StepsHeldStep ==
  ASSUME Typed, StepsAreHeld, [LoopNext]_vars
  PROVE  StepsAreHeld'
<1>1. CASE Outside
  BY <1>1 DEF Outside, Continue, Abort, Recover, Burn, EditProcess, Ended, vars, StepsAreHeld
<1>2. ASSUME NEW e \in Executors, Step(e) \/ Crash(e) PROVE StepsAreHeld'
  <2>1. \A f \in Executors \ {e} : ex'[f] = ex[f]
    BY <1>2, StepOfOwner DEF Moves
  <2>2. \A f \in Executors : HoldsTool(f) => ex[f].act.what \in Keys
    BY DEF Typed, Fits, HoldsTool, ToolActs
  <2>3. CASE UNCHANGED steps /\ ~HoldsTool(e)'
    BY <2>1, <2>3 DEF StepsAreHeld, HoldsTool
  <2>4. CASE Opens(e)
    BY <2>1, <2>2, <2>4 DEF Opens, Runnable, StepsAreHeld, HoldsTool
  <2>5. CASE Closes(e)
    BY <2>1, <2>2, <2>5 DEF Closes, StepsAreHeld, HoldsTool
  <2>6. CASE Discards /\ ~HoldsTool(e)'
    BY <2>1, <2>2, <2>6 DEF Discards, StepsAreHeld, HoldsTool
  <2>7. QED
    BY <1>2, <2>3, <2>4, <2>5, <2>6, StepsChange DEF HoldsTool
<1>3. QED
  BY <1>1, <1>2, StepsOfTheLoop

----------------------------------------------------------------------------
(* Model calls are settled by who asked them. *)

\* A call is asked, settled by the executor that waits for it, or discarded with the run.
Asks(e) ==
  /\ calls' = Append(calls, [role |-> RoleOf(ex[e].pc), st |-> "running"])
  /\ ex[e].pc \in {"plan", "synthesize", "verify"} /\ ex'[e].pc = "asked" /\ ex'[e].call = Len(calls) + 1
  /\ ex'[e].seen = IF RoleOf(ex[e].pc) = "verifier" THEN Hash ELSE None

Settles(e) ==
  /\ ex[e].pc = "asked" /\ ex'[e].pc # "asked" /\ DOMAIN calls' = DOMAIN calls
  /\ \E st \in CallStates \ {"running"} :
       /\ calls'[ex[e].call] = [role |-> calls[ex[e].call].role, st |-> st]
       /\ st \in {"failed", "fatal"} => Error(e, st) /\ calls[ex[e].call].st = "running"
  /\ \A i \in DOMAIN calls \ {ex[e].call} : calls'[i] = calls[i]

DiscardsCalls ==
  /\ run.status = "running" /\ run'.status = "failed" /\ DOMAIN calls' = DOMAIN calls
  /\ \A i \in DOMAIN calls : /\ calls'[i].role = calls[i].role
                             /\ calls[i].st = "running" => calls'[i].st = "discarded"
                             /\ calls[i].st # "running" => calls'[i] = calls[i]

\* What a step of the loop may do to the model calls.
LEMMA CallsChange ==
  ASSUME Typed, NEW e \in Executors, Step(e) \/ Crash(e)
  PROVE  /\ ex'[e].pc = "asked" => Asks(e)
         /\ \/ UNCHANGED calls
            \/ Asks(e) /\ Fenced(e) /\ ~Refused(RoleOf(ex[e].pc)) /\ UNCHANGED run
            \/ Settles(e)
            \/ DiscardsCalls /\ FailExecution(e)
<1>0. /\ RowsAreTyped /\ Fits(ex[e]) /\ ex \in [Executors -> ExecutorRow] /\ run \in RunRow
      /\ calls \in Seq(CallRow) /\ DOMAIN calls = 1 .. Len(calls)
  BY DEF Typed, RowsAreTyped
<1>1. ASSUME Ask(e)
      PROVE  \/ UNCHANGED calls /\ ex'[e].pc = "budget"
             \/ Asks(e) /\ Fenced(e) /\ ~Refused(RoleOf(ex[e].pc)) /\ UNCHANGED run
  BY <1>0, <1>1 DEF Ask, Asks, Goto, ExecutorRow
<1>2. ASSUME NEW st \in CallStates \ {"running"}, Settled(e, st), ex[e].pc = "asked", ex'[e].pc # "asked",
             st \in {"failed", "fatal"} => Error(e, st) /\ calls[ex[e].call].st = "running"
      PROVE  Settles(e)
  BY <1>0, <1>2, SettledTypes DEF Settles
<1>3. ASSUME ex[e].pc = "asked", ex'[e].pc = "asked" PROVE FALSE
  BY <1>3, Arrivals DEF Ask
<1>4. ASSUME NEW st \in {"failed", "fatal"}, Error(e, st) PROVE UNCHANGED calls \/ Settles(e)
  BY <1>2, <1>3, <1>4 DEF Error, CallStates
<1>5. ASSUME LateAnswer(e) \/ Planned(e) \/ Synthesized(e) \/ Verified(e) PROVE Settles(e)
  BY <1>2, <1>3, <1>5 DEF LateAnswer, Planned, Synthesized, Verified, Accepted, CallStates
<1>6. ASSUME FailExecution(e) PROVE UNCHANGED calls \/ DiscardsCalls
  <2>1. CASE run.status = "running" /\ ex[e].token = run.gen
    <3>1. run'.status = "failed"
      BY <1>0, <1>6, <2>1 DEF FailExecution, RunRow
    <3>2. calls' = [i \in DOMAIN calls |-> IF calls[i].st = "running"
                                            THEN [calls[i] EXCEPT !.st = "discarded"] ELSE calls[i]]
      BY <1>6, <2>1 DEF FailExecution
    <3>3. ASSUME NEW i \in DOMAIN calls
          PROVE  /\ calls'[i].role = calls[i].role
                 /\ calls[i].st = "running" => calls'[i].st = "discarded"
                 /\ calls[i].st # "running" => calls'[i] = calls[i]
      <4>1. calls[i] \in CallRow
        BY <1>0, <3>3
      <4>2. QED
        BY <3>2, <4>1 DEF CallRow
    <3>4. QED
      BY <2>1, <3>1, <3>2, <3>3 DEF DiscardsCalls
  <2>2. CASE ~(run.status = "running" /\ ex[e].token = run.gen)
    BY <1>6, <2>2 DEF FailExecution
  <2>3. QED
    BY <2>1, <2>2
<1>7. ASSUME ~Ask(e), ~Error(e, "failed"), ~Error(e, "fatal"), ~LateAnswer(e), ~Planned(e), ~Synthesized(e),
             ~Verified(e), ~FailExecution(e)
      PROVE  UNCHANGED calls
  BY <1>7 DEF Step, Start, Advance, Lockout, Suspend, MakeReady, Fail, Record, Apply, Relate, Note,
         OpenStep, ToolError, ToolAnswer, Counter, Crash
<1>8. ex'[e].pc = "asked" => Asks(e)
  BY <1>1, Arrivals
<1>9. QED
  BY <1>1, <1>4, <1>5, <1>6, <1>7, <1>8

\* Before the first takeover the executor that acts is the only one that works.
LEMMA ActsAlone ==
  ASSUME Typed, TokensTell, NobodyElse, taken = 0, NEW e \in Executors, Step(e) \/ Crash(e),
         NEW f \in Executors, Working(f)
  PROVE  f = e
<1>1. CASE Start(e)
  BY <1>1 DEF Start, NobodyElse, Working, Active
<1>2. CASE Working(e)
  <2>1. ex[e].token = ex[f].token
    BY <1>2 DEF NobodyElse
  <2>2. QED
    BY <1>2, <2>1 DEF TokensTell
<1>3. QED
  BY <1>1, <1>2, StepOfOwner DEF Leaves, Stays

\* Nobody waits for a call another executor asked.
LEMMA CallsHeldStep ==
  ASSUME Typed, TokensTell, NobodyElse, [LoopNext]_vars
  PROVE  CallsAreHeld'
<1>0. /\ CallsAreHeld /\ run \in RunRow /\ calls \in Seq(CallRow) /\ DOMAIN calls = 1 .. Len(calls)
      /\ Len(calls) \in Nat /\ taken \in Nat
  BY LimitsAssumption DEF Typed, RowsAreTyped
<1>1. CASE Outside
  <2>1. UNCHANGED <<ex, calls>> /\ (taken' = 0 => taken = 0)
    BY <1>0, <1>1 DEF Outside, Continue, Abort, Recover, Burn, EditProcess, Ended, vars
  <2>2. run.status = "failed" => run'.status = "failed"
    BY <1>0, <1>1 DEF Outside, Continue, Abort, Recover, Burn, EditProcess, Ended, vars, Active
  <2>3. QED
    BY <1>0, <2>1, <2>2 DEF CallsAreHeld
<1>2. ASSUME NEW e \in Executors, Step(e) \/ Crash(e) PROVE CallsAreHeld'
  <2>1. (\A f \in Executors \ {e} : ex'[f] = ex[f]) /\ UNCHANGED taken
    BY <1>2, StepOfOwner DEF Moves
  <2>2. run.status = "failed" => run'.status = "failed"
    BY <1>2, StepOfOwner DEF Suspend, Fenced, Active, EndsRun, Ends, Terminal
  <2>3. CASE UNCHANGED calls /\ ex'[e].pc # "asked"
    BY <1>0, <2>1, <2>2, <2>3 DEF CallsAreHeld
  <2>4. CASE Asks(e)
    <3>1. /\ DOMAIN calls' = 1 .. Len(calls) + 1 /\ Len(calls') = Len(calls) + 1
          /\ calls'[Len(calls) + 1].st = "running"
          /\ \A i \in 1 .. Len(calls) : calls'[i] = calls[i]
      <4> DEFINE call == [role |-> RoleOf(ex[e].pc), st |-> "running"]
      <4>1. call \in CallRow /\ call.st = "running"
        BY <2>4 DEF Asks, RoleOf, CallRow, CallStates, Roles
      <4> HIDE DEF call
      <4>2. QED
        BY <1>0, <2>4, <4>1, AppendProperties, LenProperties DEF Asks, call
    <3>2. \A f \in Executors \ {e} : ex[f].pc = "asked" => taken # 0
      BY <1>2, ActsAlone DEF Working
    <3>3. QED
      BY <1>0, <2>1, <2>2, <2>4, <3>1, <3>2 DEF CallsAreHeld, Asks
  <2>5. CASE Settles(e)
    <3>1. \A f \in Executors \ {e} : ex[f].pc = "asked" => ex[f].call # ex[e].call
      BY <1>0, <2>5 DEF CallsAreHeld, Settles
    <3>2. taken = 0 => \A f \in Executors \ {e} : ex[f].pc # "asked"
      BY <1>2, ActsAlone DEF Working
    <3>3. QED
      BY <1>0, <2>1, <2>2, <2>5, <3>1, <3>2 DEF CallsAreHeld, Settles
  <2>6. CASE DiscardsCalls /\ ex'[e].pc # "asked"
    <3>1. taken = 0 => \A f \in Executors \ {e} : ex[f].pc # "asked"
      BY <1>2, ActsAlone DEF Working
    <3>2. QED
      BY <1>0, <2>1, <2>6, <3>1 DEF CallsAreHeld, DiscardsCalls
  <2>7. QED
    BY <1>2, <2>3, <2>4, <2>5, <2>6, CallsChange
<1>3. QED
  BY <1>1, <1>2, StepsOfTheLoop

----------------------------------------------------------------------------
(* Packages, verdicts and relevance. *)

\* Which steps change what a package is identified by, and the report about it.
LEMMA PackageChange ==
  ASSUME Typed, NEW e \in Executors, Step(e) \/ Crash(e)
  PROVE  /\ \/ UNCHANGED <<run.package, run.relevance, run.inputs>>
            \/ Apply(e) /\ run'.package = ex[e].act.what /\ UNCHANGED <<run.relevance, run.inputs, run.status>>
            \/ Relate(e) /\ run'.relevance = ex[e].act.what /\ UNCHANGED <<run.package, run.inputs, run.status>>
         /\ UNCHANGED report \/ (Record(e) /\ report'.hash = Hash /\ report'.about = ex[e].seen)
<1>0. run \in RunRow
  BY DEF Typed, RowsAreTyped
<1>1. CASE Apply(e) \/ Relate(e)
  BY <1>0, <1>1 DEF Apply, Relate, RunRow
<1>2. CASE ~Apply(e) /\ ~Relate(e)
  <2>1. UNCHANGED <<run.package, run.relevance, run.inputs>>
    BY <1>0, <1>2, ZenonT(40) DEF RunRow, Step, Start, Advance, Lockout, Suspend, MakeReady, Fail, Ask, Error, LateAnswer,
         Planned, Synthesized, Verified, Record, Note, OpenStep, ToolError, ToolAnswer, Counter, FailExecution, Crash
  <2>2. UNCHANGED report \/ (Record(e) /\ report'.hash = Hash /\ report'.about = ex[e].seen)
    <3>1. CASE Record(e)
      BY <3>1 DEF Record
    <3>2. CASE ~Record(e)
      BY <1>2, <3>2 DEF Step, Start, Advance, Lockout, Suspend, MakeReady, Fail, Ask, Error, LateAnswer,
         Planned, Synthesized, Verified, Note, OpenStep, ToolError, ToolAnswer, Counter, FailExecution, Crash
    <3>3. QED
      BY <3>1, <3>2
  <2>3. QED
    BY <2>1, <2>2
<1>3. QED
  BY <1>1, <1>2

\* What comes from outside leaves packages, reports and executors alone; an
\* answer changes the inputs, while nobody works on the run.
LEMMA OutsidePackage ==
  ASSUME Typed, Outside
  PROVE  /\ UNCHANGED <<run.package, run.relevance, report, ex, steps, calls>>
         /\ UNCHANGED run.inputs \/ run.status = "waiting"
         /\ run'.status \in {run.status, "aborted"} \/ (run.status = "waiting" /\ run'.status = "running")
         /\ taken' = 0 => taken = 0
<1>0. run \in RunRow /\ taken \in Nat
  BY LimitsAssumption DEF Typed, RowsAreTyped
<1>1. CASE Continue
  BY <1>0, <1>1 DEF Continue, RunRow
<1>2. CASE Abort
  BY <1>0, <1>2 DEF Abort, RunRow
<1>3. CASE Recover
  <2>1. taken' # 0
    BY <1>0, <1>3 DEF Recover
  <2>2. QED
    BY <1>0, <1>3, <2>1 DEF Recover, RunRow
<1>4. CASE Burn \/ EditProcess \/ Ended \/ UNCHANGED vars
  BY <1>4 DEF Burn, EditProcess, Ended, vars
<1>5. QED
  BY <1>1, <1>2, <1>3, <1>4 DEF Outside

\* The sources of a package stay read.
LEMMA SourcesStep ==
  ASSUME Typed, StepsAreHeld, SourcesWereRead, [LoopNext]_vars
  PROVE  SourcesWereRead'
<1>0. Succeeded \subseteq Succeeded' /\ ex \in [Executors -> ExecutorRow]
  BY SuccessStays DEF Typed, RowsAreTyped
<1>1. CASE Outside
  BY <1>0, <1>1, OutsidePackage DEF SourcesWereRead
<1>2. ASSUME NEW e \in Executors, Step(e) \/ Crash(e) PROVE SourcesWereRead'
  <2>1. \A f \in Executors \ {e} : ex'[f] = ex[f]
    BY <1>2, StepOfOwner DEF Moves
  <2>2. run'.package # None => Relevant[run'.package] \subseteq Succeeded'
    BY <1>0, <1>2, PackageChange DEF SourcesWereRead, Apply
  <2>3. ASSUME ex'[e].pc \in {"apply", "relate"} PROVE Relevant[ex'[e].act.what] \subseteq Succeeded'
    <3>1. CASE Synthesized(e) /\ ex'[e].pc = "apply"
      <4>1. PICK p \in Packages : /\ Relevant[p] \subseteq Succeeded
                                  /\ Then(e, "apply", [kind |-> "package", what |-> p])
        <5>1. ASSUME NEW what, Then(e, "note", what) PROVE FALSE
          BY <1>0, <3>1, <5>1 DEF Then, ExecutorRow
        <5>2. ~NextRound(e)
          BY <1>0, <3>1 DEF NextRound, Idle
        <5>3. QED
          BY <3>1, <5>1, <5>2 DEF Synthesized
      <4>2. ex'[e].act.what = p
        BY <1>0, <4>1 DEF Then, ExecutorRow
      <4>3. QED
        BY <1>0, <4>1, <4>2
    <3>2. CASE Apply(e)
      BY <1>0, <3>2 DEF Apply, Goto, SourcesWereRead, ExecutorRow
    <3>3. QED
      BY <1>2, <2>3, <3>1, <3>2, Arrivals
  <2>4. QED
    BY <1>0, <2>1, <2>2, <2>3 DEF SourcesWereRead
<1>3. QED
  BY <1>1, <1>2, StepsOfTheLoop

\* Before the first takeover the package does not change under its review.
LEMMA VerdictsStep ==
  ASSUME Typed, TokensTell, NobodyElse, VerdictsAreBound, [LoopNext]_vars
  PROVE  VerdictsAreBound'
<1>0. /\ ex \in [Executors -> ExecutorRow] /\ run \in RunRow /\ CallsAreHeld
      /\ calls \in Seq(CallRow) /\ Len(calls) \in Nat
  BY DEF Typed, RowsAreTyped
<1>1. CASE Outside
  <2>1. ASSUME taken = 0, NEW f \in Executors, Working(f) PROVE run.status # "waiting"
    BY <1>0, <2>1, NextGeneration DEF TokensTell, NobodyElse, Active
  <2>2. taken = 0 => UNCHANGED Hash \/ \A f \in Executors : ~Working(f)
    BY <1>1, <2>1, OutsidePackage DEF Hash
  <2>3. QED
    BY <1>1, <2>2, OutsidePackage DEF VerdictsAreBound, Working
<1>2. ASSUME NEW e \in Executors, Step(e) \/ Crash(e), taken = 0 PROVE VerdictsAreBound'
  <2>1. (\A f \in Executors \ {e} : ex'[f] = ex[f]) /\ \A f \in Executors \ {e} : ~Working(f)
    BY <1>2, StepOfOwner, ActsAlone DEF Moves
  <2>2. report' # None => report'.about = report'.hash
    BY <1>2, PackageChange DEF VerdictsAreBound, Record
  <2>3. ASSUME ex'[e].pc = "asked" PROVE calls'[ex'[e].call].role = "verifier" => ex'[e].seen = Hash'
    <3>1. Asks(e) /\ UNCHANGED run
      BY <1>2, <2>3, CallsChange, Arrivals DEF Settles, FailExecution, Quit, Ask, Goto
    <3>2. [role |-> RoleOf(ex[e].pc), st |-> "running"] \in CallRow
      BY <3>1 DEF Asks, RoleOf, CallRow, CallStates, Roles
    <3>3. calls'[Len(calls) + 1] = [role |-> RoleOf(ex[e].pc), st |-> "running"]
      BY <1>0, <3>1, <3>2, AppendProperties DEF Asks
    <3>4. QED
      BY <3>1, <3>3 DEF Asks, Hash
  <2>4. ASSUME ex'[e].pc = "record" PROVE ex'[e].seen = Hash'
    <3>1. Verified(e) /\ UNCHANGED run
      BY <1>2, <2>4, Arrivals DEF Verified
    <3>2. ex[e].pc = "asked" /\ calls[ex[e].call].role = "verifier"
      BY <3>1 DEF Verified, Accepted
    <3>3. ex'[e].seen = ex[e].seen
      BY <1>0, <3>1, ZenonT(40) DEF Verified, Then, ExecutorRow
    <3>4. QED
      BY <1>2, <3>1, <3>2, <3>3 DEF VerdictsAreBound, Hash
  <2>5. QED
    BY <2>1, <2>2, <2>3, <2>4 DEF VerdictsAreBound, Working
<1>3. ASSUME taken # 0, ~Outside PROVE VerdictsAreBound'
  BY <1>3, StepsOfTheLoop, StepOfOwner DEF VerdictsAreBound
<1>4. QED
  BY <1>1, <1>2, <1>3, StepsOfTheLoop

\* An executor that is to state the relevance states it, or fails.
LEMMA RelatingSteps ==
  ASSUME Typed, NEW e \in Executors, Step(e) \/ Crash(e), ex[e].pc = "relate"
  PROVE  Relate(e) \/ ex'[e].pc = "raised"
<1>1. Relate(e) \/ Lockout(e) \/ Crash(e)
  BY DEF Step, Start, Advance, Suspend, MakeReady, Fail, Ask, Error, LateAnswer, Accepted,
         Planned, Synthesized, Verified, Record, Apply, Note, OpenStep, ToolError, ToolAnswer,
         Counter, FailExecution
<1>2. QED
  BY <1>1, Raising DEF Lockout, Crash, Typed, RowsAreTyped

\* While nobody took the run over, an executor that raised fails the run.
LEMMA RaisedFailsTheRun ==
  ASSUME Typed, TokensTell, NobodyElse, taken = 0, NEW e \in Executors, Step(e) \/ Crash(e),
         ex[e].pc = "raised", run.status \notin {"failed", "aborted"}
  PROVE  FailExecution(e) /\ run.status = "running" /\ ex[e].token = run.gen /\ run'.status = "failed"
<1>0. run \in RunRow /\ run.gen \in Nat /\ ex[e].token \in Nat
  BY NextGeneration DEF Typed, RowsAreTyped, ExecutorRow
<1>1. FailExecution(e) /\ Working(e)
  BY RaisedReports DEF Leaves
<1>2. run.status = "running" /\ ex[e].token = run.gen
  <2>1. run.status \in Terminal \cup {"running", "waiting"}
    BY <1>0 DEF RunRow
  <2>2. Active /\ ex[e].token = run.gen
    BY <1>1, <2>1 DEF NobodyElse, Active, Terminal
  <2>3. QED
    BY <1>0, <1>1, <2>2 DEF TokensTell, Active
<1>3. QED
  BY <1>0, <1>1, <1>2 DEF FailExecution, RunRow

\* Before the first takeover the relevance follows the package.
LEMMA RelevanceStep ==
  ASSUME Typed, TokensTell, NobodyElse, RelevanceFollows, [LoopNext]_vars
  PROVE  RelevanceFollows'
<1>0. ex \in [Executors -> ExecutorRow] /\ run \in RunRow
  BY DEF Typed, RowsAreTyped
<1>1. CASE Outside
  BY <1>1, OutsidePackage DEF RelevanceFollows
<1>2. ASSUME NEW e \in Executors, Step(e) \/ Crash(e), taken = 0 PROVE RelevanceFollows'
  <2>1. (\A f \in Executors \ {e} : ex'[f] = ex[f]) /\ \A f \in Executors \ {e} : ~Working(f)
    BY <1>2, StepOfOwner, ActsAlone DEF Moves
  <2>2. ASSUME ex'[e].pc = "relate" PROVE ex'[e].act.what = run'.package
    <3>1. Apply(e) /\ run'.package = ex[e].act.what
      BY <1>0, <1>2, <2>2, Arrivals DEF Apply, RunRow
    <3>2. QED
      BY <1>0, <3>1 DEF Apply, Goto, ExecutorRow
  <2>3. ASSUME run'.status \in {"running", "waiting", "ready"}
        PROVE  run'.relevance = run'.package \/ \E f \in Executors : ex'[f].pc \in {"relate", "raised"}
    <3>1. run.status \in {"running", "waiting", "ready"}
      BY <1>0, <1>2, <2>3, StepOfOwner DEF Suspend, Fenced, Active, EndsRun, Ends, Terminal, RunRow
    <3>2. CASE Apply(e)
      BY <1>0, <3>2 DEF Apply, Goto, ExecutorRow
    <3>3. CASE Relate(e)
      BY <1>0, <1>2, <3>3 DEF Relate, RelevanceFollows, RunRow
    <3>4. CASE ~Apply(e) /\ ~Relate(e)
      <4>1. UNCHANGED <<run.package, run.relevance>>
        BY <1>2, <3>4, PackageChange
      <4>2. ex[e].pc # "raised"
        BY <1>2, <2>3, <3>1, RaisedFailsTheRun
      <4>3. ex[e].pc = "relate" => ex'[e].pc = "raised"
        BY <1>2, <3>4, RelatingSteps
      <4>4. run.relevance = run.package \/ ex[e].pc = "relate"
        BY <1>2, <2>1, <3>1, <4>2 DEF RelevanceFollows, Working
      <4>5. QED
        BY <4>1, <4>3, <4>4
    <3>5. QED
      BY <3>2, <3>3, <3>4
  <2>4. QED
    BY <2>1, <2>2, <2>3 DEF RelevanceFollows, Working
<1>3. ASSUME taken # 0, ~Outside PROVE RelevanceFollows'
  BY <1>3, StepsOfTheLoop, StepOfOwner DEF RelevanceFollows
<1>4. QED
  BY <1>1, <1>2, <1>3, StepsOfTheLoop

----------------------------------------------------------------------------
(* Open work has an owner; a run that is ready has earned it. *)

\* An executor that holds a step settles it or falls with it.
LEMMA HoldersSettle ==
  ASSUME Typed, NEW e \in Executors, Step(e) \/ Crash(e), HoldsTool(e), ex[e].token = run.gen
  PROVE  Closes(e) \/ (ex'[e].pc = "raised" /\ UNCHANGED run)
<1>0. RowsAreTyped /\ Fits(ex[e]) /\ ex \in [Executors -> ExecutorRow]
  BY DEF Typed, RowsAreTyped
<1>1. \/ ToolError(e, "failed") \/ ToolError(e, "broken") \/ ToolAnswer(e) \/ Crash(e)
  BY DEF HoldsTool, Step, Start, Advance, Lockout, Writes, Suspend, MakeReady, Fail, Ask, Error, LateAnswer, Accepted,
         Planned, Synthesized, Verified, Record, Apply, Relate, Note, OpenStep, Counter, FailExecution
<1>2. CASE Crash(e) \/ ToolError(e, "failed") \/ ToolError(e, "broken")
  BY <1>0, <1>2, Raising DEF Crash, ToolError
<1>3. CASE ToolAnswer(e)
  <2>1. ex[e].act.what \in Keys
    BY <1>0 DEF HoldsTool, Fits, ToolActs
  <2>2. ~HoldsTool(e)'
    BY <1>0, <1>3, Raising DEF ToolAnswer, HoldsTool, Goto, ExecutorRow
  <2>3. QED
    BY <1>0, <1>3, <2>1, <2>2 DEF ToolAnswer, Closes, RowsAreTyped, StepRow
<1>4. QED
  BY <1>1, <1>2, <1>3

\* An executor that waits for an open call settles it or falls with it.
LEMMA AskersSettle ==
  ASSUME Typed, NEW e \in Executors, Step(e) \/ Crash(e), ex[e].pc = "asked", ex[e].token = run.gen,
         calls[ex[e].call].st = "running"
  PROVE  Settles(e) \/ (ex'[e].pc = "raised" /\ UNCHANGED run)
<1>0. RowsAreTyped /\ ex \in [Executors -> ExecutorRow]
  BY DEF Typed, RowsAreTyped
<1>1. \/ Error(e, "failed") \/ Error(e, "fatal") \/ LateAnswer(e)
      \/ Planned(e) \/ Synthesized(e) \/ Verified(e) \/ Crash(e)
  BY DEF Step, Start, Advance, Lockout, Writes, Suspend, MakeReady, Fail, Ask, Record, Apply, Relate, Note,
         OpenStep, ToolError, ToolAnswer, Counter, FailExecution
<1>2. CASE Crash(e)
  BY <1>0, <1>2, Raising DEF Crash
<1>3. ASSUME NEW st \in CallStates \ {"running"}, Settled(e, st),
             st \in {"failed", "fatal"} => Error(e, st)
      PROVE  Settles(e)
  <2>1. ex'[e].pc # "asked"
    BY Arrivals DEF Ask
  <2>2. QED
    BY <1>0, <1>3, <2>1, SettledTypes DEF Settles
<1>4. CASE Error(e, "failed") \/ Error(e, "fatal")
  BY <1>3, <1>4 DEF Error, CallStates
<1>5. CASE LateAnswer(e) \/ Planned(e) \/ Synthesized(e) \/ Verified(e)
  BY <1>3, <1>5 DEF LateAnswer, Planned, Synthesized, Verified, Accepted, CallStates
<1>6. QED
  BY <1>1, <1>2, <1>4, <1>5

\* The failure of the run leaves nothing open.
LEMMA FailureDiscards ==
  ASSUME Typed, NEW e \in Executors, FailExecution(e), run.status = "running", ex[e].token = run.gen
  PROVE  /\ \A k \in Keys : steps'[k].st # "running"
         /\ \A i \in DOMAIN calls' : calls'[i].st # "running"
<1>1. steps \in [Keys -> StepRow] /\ \A i \in DOMAIN calls : calls[i] \in CallRow
  BY DEF Typed, RowsAreTyped
<1>2. QED
  BY <1>1 DEF FailExecution, StepRow, CallRow

\* What is open before the first takeover has an owner, or is discarded with the run.
LEMMA OpenWorkStep ==
  ASSUME Typed, TokensTell, NobodyElse, OpenWorkIsOwned, [LoopNext]_vars
  PROVE  OpenWorkIsOwned'
<1>0. ex \in [Executors -> ExecutorRow] /\ run \in RunRow /\ calls \in Seq(CallRow) /\ CallsAreHeld
  BY DEF Typed, RowsAreTyped
<1>1. CASE Outside
  <2>1. taken' = 0 /\ run'.status # "aborted" =>
          UNCHANGED run.gen \/ (run.status = "waiting" /\ \A e \in Executors : ~Working(e))
    <3>1. ASSUME taken' = 0, Recover PROVE FALSE
      BY <3>1, LimitsAssumption DEF Recover, Typed, RowsAreTyped
    <3>2. ASSUME taken = 0, NEW f \in Executors, Working(f) PROVE run.status # "waiting"
      BY <1>0, <3>2, NextGeneration DEF TokensTell, NobodyElse, Active
    <3>3. ASSUME Abort PROVE run'.status = "aborted"
      BY <1>0, <3>3 DEF Abort, RunRow
    <3>4. QED
      BY <1>1, <3>1, <3>2, <3>3, OutsidePackage DEF Outside, Continue, Burn, EditProcess, Ended, vars
  <2>2. UNCHANGED <<ex, steps, calls>> /\ (run'.status # "aborted" => run.status # "aborted")
    BY <1>0, <1>1, OutsidePackage DEF Outside, Continue, Abort, Recover, Burn, EditProcess, Ended, vars, RunRow, Active
  <2>3. taken' = 0 => taken = 0
    BY <1>1, OutsidePackage
  <2>4. QED
    BY <2>1, <2>2, <2>3 DEF OpenWorkIsOwned, Falls, Working
<1>2. ASSUME NEW e \in Executors, Step(e) \/ Crash(e), taken = 0, run'.status # "aborted" PROVE OpenWorkIsOwned'
  <2>1. (\A f \in Executors \ {e} : ex'[f] = ex[f]) /\ \A f \in Executors \ {e} : ~Working(f)
    BY <1>2, StepOfOwner, ActsAlone DEF Moves
  <2>2. run.status # "aborted"
    BY <1>2, StepOfOwner DEF Suspend, Fenced, Active, EndsRun, Ends, Terminal
  <2>3. CASE ex[e].pc = "raised" /\ run.status # "failed"
    BY <1>2, <2>2, <2>3, RaisedFailsTheRun, FailureDiscards DEF OpenWorkIsOwned
  <2>4. CASE ex[e].pc = "raised" /\ run.status = "failed"
    <3>1. FailExecution(e) /\ UNCHANGED <<steps, calls>>
      BY <1>2, <2>4, RaisedReports DEF FailExecution
    <3>2. ex[e].token # run.gen
      <4>1. Working(e) /\ ex[e].token \in Nat /\ run.gen \in Nat
        BY <1>0, <2>4, NextGeneration DEF Working, ExecutorRow
      <4>2. QED
        BY <2>4, <4>1 DEF TokensTell
    <3>3. QED
      BY <2>1, <2>2, <2>4, <3>1, <3>2, <1>2 DEF OpenWorkIsOwned, Falls, Working
  <2>5. CASE ex[e].pc # "raised"
    <3>1. ~Falls
      BY <2>1, <2>5 DEF Falls, Working
    <3>2. Working(e) => ex[e].token = run.gen
      <4>1. run.status \in Terminal \cup {"running", "waiting"}
        BY <1>0 DEF RunRow
      <4>2. QED
        BY <1>2, <2>2, <2>5, <4>1 DEF NobodyElse, Active, Terminal
    <3>3. ASSUME NEW k \in Keys, steps'[k].st = "running"
          PROVE  Falls' \/ \E f \in Executors : ex'[f].pc \in {"tooling", "reading"} /\ ex'[f].act.what = k
      <4>1. CASE HoldsTool(e)
        <5>1. CASE Closes(e)
          BY <1>2, <2>1, <2>2, <3>1, <3>3, <4>1, <5>1 DEF Closes, OpenWorkIsOwned, HoldsTool, Working
        <5>2. CASE ex'[e].pc = "raised" /\ UNCHANGED run
          BY <1>2, <3>2, <4>1, <5>2, StepOfOwner DEF Falls, Leaves, Stays, HoldsTool, Working
        <5>3. QED
          BY <1>2, <3>2, <4>1, <5>1, <5>2, HoldersSettle DEF HoldsTool, Working
      <4>2. CASE ~HoldsTool(e)
        <5>1. steps[k].st # "running"
          BY <1>2, <2>1, <2>2, <3>1, <4>2 DEF OpenWorkIsOwned, HoldsTool, Working
        <5>2. Opens(e) /\ HoldsTool(e)'
          BY <1>2, <3>3, <4>2, <5>1, StepsChange DEF Closes, Discards
        <5>3. k = ex[e].act.what
          BY <3>3, <5>1, <5>2 DEF Opens
        <5>4. QED
          BY <5>2, <5>3 DEF Opens, HoldsTool
      <4>3. QED
        BY <4>1, <4>2
    <3>4. ASSUME NEW i \in DOMAIN calls', calls'[i].st = "running"
          PROVE  Falls' \/ \E f \in Executors : ex'[f].pc = "asked" /\ ex'[f].call = i
      <4>1. \A j \in DOMAIN calls : calls[j].st = "running" => ex[e].pc = "asked" /\ ex[e].call = j
        BY <1>2, <2>1, <2>2, <3>1 DEF OpenWorkIsOwned, Working
      <4>2. CASE Asks(e)
        <5>1. i \in 1 .. Len(calls) + 1 /\ Len(calls) \in Nat /\ DOMAIN calls = 1 .. Len(calls)
          <6>1. [role |-> RoleOf(ex[e].pc), st |-> "running"] \in CallRow
            BY <4>2 DEF Asks, RoleOf, CallRow, CallStates, Roles
          <6>2. QED
            BY <1>0, <3>4, <4>2, <6>1, AppendProperties, LenProperties DEF Asks
        <5>2. i # Len(calls) + 1 => calls'[i] = calls[i] /\ i \in DOMAIN calls
          BY <1>0, <4>2, <5>1 DEF Asks
        <5>3. i = Len(calls) + 1
          BY <3>4, <4>1, <4>2, <5>2 DEF Asks
        <5>4. QED
          BY <4>2, <5>3 DEF Asks
      <4>3. CASE Settles(e)
        BY <3>4, <4>1, <4>3 DEF Settles
      <4>4. CASE DiscardsCalls
        BY <3>4, <4>1, <4>4 DEF DiscardsCalls
      <4>5. CASE UNCHANGED calls
        <5>1. ex[e].pc = "asked" /\ ex[e].call = i /\ calls[ex[e].call].st = "running"
          BY <3>4, <4>1, <4>5
        <5>2. CASE ex'[e].pc = "raised" /\ UNCHANGED run
          BY <1>2, <3>2, <5>1, <5>2, StepOfOwner DEF Falls, Leaves, Stays, Working
        <5>3. QED
          BY <1>2, <3>2, <4>3, <5>1, <5>2, AskersSettle DEF Working
      <4>6. QED
        BY <1>2, <4>2, <4>3, <4>4, <4>5, CallsChange
    <3>5. QED
      BY <3>3, <3>4 DEF OpenWorkIsOwned
  <2>6. QED
    BY <2>3, <2>4, <2>5
<1>3. ASSUME taken # 0 \/ run'.status = "aborted", ~Outside PROVE OpenWorkIsOwned'
  BY <1>3, StepsOfTheLoop, StepOfOwner DEF OpenWorkIsOwned
<1>4. QED
  BY <1>1, <1>2, <1>3, StepsOfTheLoop

\* Nobody overturns what made a run ready, before the first takeover.
LEMMA ReadyStep ==
  ASSUME Typed, TokensTell, NobodyElse, SourcesWereRead, VerdictsAreBound, RelevanceFollows,
         ReadyIsEarned, [LoopNext]_vars
  PROVE  ReadyIsEarned'
<1>0. run \in RunRow
  BY DEF Typed, RowsAreTyped
<1>1. CASE Outside
  <2>1. run'.status = "ready" => run.status = "ready"
    BY <1>1, OutsidePackage
  <2>2. ASSUME run.status = "ready" PROVE UNCHANGED <<run, report, steps>>
    BY <1>1, <2>2 DEF Outside, Continue, Abort, Recover, Burn, EditProcess, Ended, vars, Active
  <2>3. taken' = 0 => taken = 0
    BY <1>1, OutsidePackage
  <2>4. QED
    BY <2>1, <2>2, <2>3 DEF ReadyIsEarned, Policy, Gap, PreBlocked, Reviewed, Unreviewed, Hash, Succeeded
<1>2. ASSUME NEW e \in Executors, Step(e) \/ Crash(e), taken = 0, run'.status = "ready"
      PROVE  ReadyIsEarned'
  <2>1. run.status # "ready"
    <3>1. Start(e) \/ Working(e)
      BY <1>2, StepOfOwner DEF Leaves, Stays
    <3>2. QED
      BY <1>2, <3>1 DEF Start, NobodyElse
  <2>2. MakeReady(e) /\ EndsRun(e)
    <3>1. ~Fail(e) /\ ~FailExecution(e)
      BY <1>0, <1>2, <2>1 DEF Fail, FailExecution, RunRow
    <3>2. QED
      BY <1>2, <2>1, <3>1, StepOfOwner
  <2>3. /\ Policy = "ready" /\ run' = [run EXCEPT !.status = "ready", !.gen = @ + 1]
        /\ ex[e].pc = "ready" /\ UNCHANGED <<steps, report>>
    BY <2>1, <2>2, <1>2 DEF MakeReady
  <2>4. UNCHANGED <<run.package, run.relevance, run.inputs, run.searched, run.processed>>
    BY <1>0, <2>3 DEF RunRow
  <2>5. ~PreBlocked /\ Reviewed
    BY <2>3 DEF Policy
  <2>6. report.ok /\ report # None /\ report.hash = Hash /\ report.about = Hash
    BY <1>2, <2>5 DEF Reviewed, Unreviewed, VerdictsAreBound
  <2>7. run.relevance = run.package
    <3>1. ASSUME NEW f \in Executors, ex[f].pc \in {"relate", "raised"} PROVE FALSE
      BY <1>2, <2>3, <3>1, ActsAlone DEF Working
    <3>2. run.status \in {"running", "waiting"}
      BY <2>2 DEF MakeReady, Fenced, Active
    <3>3. QED
      BY <1>2, <3>1, <3>2 DEF RelevanceFollows
  <2>8. Relevant[run.package] \subseteq Succeeded
    BY <2>5 DEF PreBlocked, SourcesWereRead
  <2>9. QED
    BY <2>3, <2>4, <2>6, <2>7, <2>8 DEF ReadyIsEarned, Policy, Gap, PreBlocked, Reviewed, Unreviewed, Hash, Succeeded
<1>3. ASSUME taken # 0 \/ run'.status # "ready", ~Outside PROVE ReadyIsEarned'
  BY <1>3, StepsOfTheLoop, StepOfOwner DEF ReadyIsEarned
<1>4. QED
  BY <1>1, <1>2, <1>3, StepsOfTheLoop

----------------------------------------------------------------------------
(* Repeats and failures are counted. *)

\* The owner of a run it cannot go on with ends the run, or dies in its place.
LEMMA FallersFall ==
  ASSUME Typed, TokensTell, NEW e \in Executors, Step(e) \/ Crash(e), Active, ex[e].token = run.gen,
         ex[e].pc \in {"repeats", "provider", "raised"}
  PROVE  ~Active' \/ (ex'[e].pc = "raised" /\ ex'[e].token = run'.gen)
<1>0. run \in RunRow /\ run.gen \in Nat /\ ex \in [Executors -> ExecutorRow]
  BY NextGeneration DEF Typed, RowsAreTyped
<1>1. CASE ex[e].pc = "raised"
  <2>1. FailExecution(e) /\ Working(e)
    BY <1>1, RaisedReports DEF Leaves
  <2>2. run.status = "running"
    BY <1>0, <2>1 DEF TokensTell
  <2>3. QED
    BY <1>0, <2>1, <2>2 DEF FailExecution, RunRow, Active
<1>2. CASE ex[e].pc \in {"repeats", "provider"}
  <2>1. Fail(e) \/ Crash(e)
    BY <1>2 DEF Step, Start, Advance, Lockout, Fenced, Suspend, MakeReady, Ask, Error, LateAnswer, Accepted,
         Planned, Synthesized, Verified, Record, Apply, Relate, Note, OpenStep, ToolError, ToolAnswer,
         Counter, FailExecution
  <2>2. CASE Fail(e)
    BY <1>0, <2>2 DEF Fail, RunRow, Active
  <2>3. CASE Crash(e)
    BY <1>0, <2>3, Raising DEF Crash
  <2>4. QED
    BY <2>1, <2>2, <2>3
<1>3. QED
  BY <1>1, <1>2

\* A run that is active after a step was so before, under the same generation.
LEMMA ActiveBefore ==
  ASSUME Typed, NEW e \in Executors, Step(e) \/ Crash(e), Active'
  PROVE  Active /\ UNCHANGED run.gen
  BY StepOfOwner DEF Active, Suspend, Fenced, EndsRun, Ends, Terminal

\* How the count of repetitions moves.
LEMMA RepeatsChange ==
  ASSUME Typed, NEW e \in Executors, Step(e) \/ Crash(e)
  PROVE  \/ UNCHANGED run.repeated
         \/ /\ Note(e) /\ run'.repeated.times \in Nat
            /\ run'.repeated.times <= run.repeated.times + 1 \/ run'.repeated.times <= 1
            /\ run'.repeated.times > MaxRepeats => ex'[e].pc = "repeats"
<1>0. run \in RunRow /\ ex \in [Executors -> ExecutorRow]
  BY DEF Typed, RowsAreTyped
<1>1. CASE Note(e)
  <2> DEFINE f == Fingerprint(e)
             n == IF f = None THEN 0 ELSE IF run.repeated.of = f THEN run.repeated.times + 1 ELSE 1
  <2>1. run.repeated.times \in Nat
    BY <1>0 DEF RunRow
  <2>2. n \in Nat /\ (n <= run.repeated.times + 1 \/ n <= 1)
    BY <2>1
  <2>3. run' = [run EXCEPT !.repeated = [of |-> f, times |-> n]] /\ (n > MaxRepeats => Goto(e, "repeats"))
    BY <1>1 DEF Note
  <2> HIDE DEF f, n
  <2>4. run'.repeated.times = n
    BY <1>0, <2>3 DEF RunRow
  <2>5. n > MaxRepeats => ex'[e].pc = "repeats"
    BY <1>0, <2>3, Going DEF Labels, Writes
  <2>6. QED
    BY <1>1, <2>2, <2>4, <2>5
<1>2. CASE ~Note(e)
  BY <1>0, <1>2 DEF RunRow, Step, Start, Advance, Lockout, Suspend, MakeReady, Fail, Ask, Error, LateAnswer,
     Planned, Synthesized, Verified, Record, Apply, Relate, OpenStep, ToolError, ToolAnswer, Counter,
     FailExecution, Crash
<1>3. QED
  BY <1>1, <1>2

\* The owner of an active run is the only one that works under its token.
LEMMA OwnerIsOne ==
  ASSUME Typed, TokensTell, NEW e \in Executors, Working(e), ex[e].token = run.gen,
         NEW f \in Executors \ {e}, ex[f].token = run.gen
  PROVE  ex[f].pc \in {"idle", "done"}
  BY DEF TokensTell, Working

\* While a run waits, nobody works under its token.
LEMMA WaitingIsUnowned ==
  ASSUME Typed, TokensTell, run.status = "waiting", NEW f \in Executors, ex[f].token = run.gen
  PROVE  ex[f].pc \in {"idle", "done"}
  BY NextGeneration DEF TokensTell, Working, Typed, RowsAreTyped

\* Repetitions stay within their bound.
LEMMA RepeatsStep ==
  ASSUME Typed, TokensTell, RepeatsAreCounted, [LoopNext]_vars
  PROVE  RepeatsAreCounted'
<1>0. /\ run \in RunRow /\ taken \in Nat /\ MaxRepeats \in Nat /\ run.repeated.times \in Nat
      /\ ex \in [Executors -> ExecutorRow]
  <2>1. run \in RunRow /\ ex \in [Executors -> ExecutorRow] /\ taken \in Nat /\ MaxRepeats \in Nat
    BY LimitsAssumption DEF Typed, RowsAreTyped
  <2>2. QED
    BY <2>1 DEF RunRow
<1> DEFINE Quiet == Active /\ \A f \in Executors : ex[f].token = run.gen => ex[f].pc \notin {"repeats", "raised"}
<1>1. CASE Outside
  <2>1. CASE Continue
    <3>1. run'.repeated = run.repeated /\ taken' = taken /\ run.status = "waiting"
      BY <1>0, <2>1 DEF Continue, RunRow
    <3>2. Quiet
      BY <3>1, WaitingIsUnowned DEF Active
    <3>3. QED
      BY <1>0, <3>1, <3>2 DEF RepeatsAreCounted
  <2>2. CASE Recover
    <3>1. run'.repeated = run.repeated /\ taken' = taken + 1
      BY <1>0, <2>2 DEF Recover, RunRow
    <3>2. QED
      BY <1>0, <3>1 DEF RepeatsAreCounted
  <2>3. CASE Abort
    BY <1>0, <2>3 DEF Abort, RunRow, RepeatsAreCounted, Active
  <2>4. CASE UNCHANGED <<run, ex, taken>>
    BY <2>4 DEF RepeatsAreCounted, Active
  <2>5. QED
    BY <1>1, <2>1, <2>2, <2>3, <2>4 DEF Outside, Burn, EditProcess, Ended, vars
<1>2. ASSUME NEW e \in Executors, Step(e) \/ Crash(e) PROVE RepeatsAreCounted'
  <2>1. (\A f \in Executors \ {e} : ex'[f] = ex[f]) /\ UNCHANGED taken
    BY <1>2, StepOfOwner DEF Moves
  <2>2. CASE UNCHANGED run.repeated
    <3>1. Quiet' => Quiet
      BY <1>2, <2>1, ActiveBefore, FallersFall
    <3>2. QED
      BY <1>0, <2>1, <2>2, <3>1 DEF RepeatsAreCounted
  <2>3. CASE /\ Note(e) /\ run'.repeated.times \in Nat
             /\ run'.repeated.times <= run.repeated.times + 1 \/ run'.repeated.times <= 1
             /\ run'.repeated.times > MaxRepeats => ex'[e].pc = "repeats"
    <3>1. Working(e) /\ Fenced(e) /\ ex[e].pc = "note"
      BY <2>3 DEF Note, Working
    <3>2. Quiet
      BY <3>1, OwnerIsOne DEF Fenced
    <3>3. run.repeated.times <= MaxRepeats + taken
      BY <3>2 DEF RepeatsAreCounted
    <3>4. Quiet' => run'.repeated.times <= MaxRepeats
      <4>1. run'.gen = run.gen
        BY <1>0, <2>3 DEF Note, RunRow
      <4>2. ex'[e].pc = "repeats" => ex'[e].token = ex[e].token
        BY <1>2, <2>3, <3>1, StepOfOwner DEF Stays, Leaves, Start
      <4>3. QED
        BY <1>0, <2>3, <3>1, <4>1, <4>2 DEF Fenced
    <3>5. QED
      BY <1>0, <2>1, <2>3, <3>3, <3>4 DEF RepeatsAreCounted
  <2>4. QED
    BY <1>2, <2>2, <2>3, RepeatsChange
<1>3. QED
  BY <1>1, <1>2, StepsOfTheLoop

\* A part of a finite set is no larger.
LEMMA SmallerSet ==
  ASSUME NEW S, IsFiniteSet(S), NEW T \in SUBSET S, NEW n \in Nat, Cardinality(S) <= n
  PROVE  Cardinality(T) <= n
  BY FS_Subset, FS_CardinalityType

\* A set with one element more is larger by one at most.
LEMMA OneMore ==
  ASSUME NEW S, IsFiniteSet(S), NEW x, NEW T \in SUBSET (S \cup {x}), NEW n \in Nat, Cardinality(S) <= n
  PROVE  Cardinality(T) <= n + 1
<1>1. IsFiniteSet(S \cup {x}) /\ Cardinality(S \cup {x}) <= n + 1 /\ Cardinality(S) \in Nat
  BY FS_AddElement, FS_CardinalityType, SMTT(30)
<1>2. QED
  BY <1>1, SmallerSet

\* The sets that are counted are finite.
LEMMA CountsAreFinite ==
  ASSUME calls \in Seq(CallRow)
  PROVE  /\ IsFiniteSet(OpenCalls) /\ IsFiniteSet(OpenCalls \ Mine)
         /\ \A role : /\ IsFiniteSet(Counted(role)) /\ IsFiniteSet(Counted(role) \ Mine)
                      /\ IsFiniteSet(Failed(role)) /\ Failed(role) \subseteq Counted(role)
<1>1. DOMAIN calls = 1 .. Len(calls) /\ IsFiniteSet(1 .. Len(calls))
  BY FS_Interval
<1>2. OpenCalls \subseteq DOMAIN calls /\ \A role : Counted(role) \subseteq DOMAIN calls
  BY DEF OpenCalls, Counted, CallsOf
<1>3. \A role : Failed(role) \subseteq Counted(role)
  BY DEF Failed, Counted
<1>4. QED
  BY <1>1, <1>2, <1>3, FS_Subset

\* What a model call adds to the counted calls when it is asked.
LEMMA AskedCounts ==
  ASSUME calls \in Seq(CallRow), NEW role \in Roles,
         calls' = Append(calls, [role |-> role, st |-> "running"])
  PROVE  /\ OpenCalls' \subseteq OpenCalls \cup {Len(calls) + 1}
         /\ \A r : Counted(r)' \subseteq Counted(r) \cup {Len(calls) + 1}
         /\ Len(calls) + 1 \in DOMAIN calls' /\ DOMAIN calls \subseteq DOMAIN calls'
         /\ \A i \in DOMAIN calls' : calls'[i].st = "fatal" => i \in DOMAIN calls /\ calls[i].st = "fatal"
<1> DEFINE n == Len(calls)
           call == [role |-> role, st |-> "running"]
<1>1. call \in CallRow /\ call.st = "running"
  BY DEF CallRow, CallStates
<1> HIDE DEF call
<1>2. n \in Nat /\ DOMAIN calls = 1 .. n
  BY LenProperties
<1>3. /\ DOMAIN calls' = 1 .. n + 1 /\ calls'[n + 1] = call
      /\ \A i \in 1 .. n : calls'[i] = calls[i]
  BY <1>1, <1>2, AppendProperties, LenProperties DEF call
<1>4. OpenCalls' \subseteq OpenCalls \cup {n + 1}
  BY <1>2, <1>3 DEF OpenCalls
<1>5. ASSUME NEW r, NEW i \in Counted(r)', i # n + 1 PROVE i \in Counted(r)
  <2>1. i \in 1 .. n /\ calls'[i] = calls[i]
    BY <1>2, <1>3, <1>5 DEF Counted, CallsOf
  <2>2. Successes(r) \subseteq Successes(r)'
    BY <1>2, <1>3 DEF Successes, CallsOf
  <2>3. QED
    BY <1>2, <1>4, <1>5, <2>1, <2>2 DEF Counted, Failed, CallsOf
<1>6. QED
  BY <1>1, <1>2, <1>3, <1>4, <1>5

\* What settling a call leaves of the counted calls.
LEMMA SettledCounts ==
  ASSUME Typed, NEW e \in Executors, Settles(e)
  PROVE  /\ OpenCalls' \subseteq OpenCalls \ {ex[e].call}
         /\ \A r : Counted(r)' \subseteq Counted(r)
         /\ \A r : calls'[ex[e].call].st \in {"failed", "fatal"} \/ Counted(r)' \subseteq Counted(r) \ {ex[e].call}
         /\ \A r : r # calls[ex[e].call].role => ex[e].call \notin Counted(r)'
         /\ \A r : Failed(r)' \subseteq Failed(r) \cup {ex[e].call}
<1> DEFINE c == ex[e].call
<1>1. /\ c \in DOMAIN calls /\ calls[c].st \in {"running", "discarded"} /\ DOMAIN calls' = DOMAIN calls
  BY DEF Typed, CallsAreHeld, Settles
<1>2. PICK st \in CallStates \ {"running"} :
        /\ calls'[c] = [role |-> calls[c].role, st |-> st]
        /\ st \in {"failed", "fatal"} => calls[c].st = "running"
  BY DEF Settles
<1>3. \A i \in DOMAIN calls \ {c} : calls'[i] = calls[i]
  BY DEF Settles
<1>4. OpenCalls' \subseteq OpenCalls \ {c}
  BY <1>1, <1>2, <1>3 DEF OpenCalls
<1>5. \A r : Successes(r) \subseteq Successes(r)'
  BY <1>1, <1>3 DEF Successes, CallsOf
<1>6. ASSUME NEW r, NEW i \in Failed(r)', i # c PROVE i \in Failed(r)
  BY <1>1, <1>3, <1>5, <1>6 DEF Failed, CallsOf
<1>7. ASSUME NEW r, NEW i \in Counted(r)', i # c PROVE i \in Counted(r)
  BY <1>1, <1>3, <1>4, <1>6, <1>7 DEF Counted, CallsOf
<1>8. ASSUME NEW r, c \in Counted(r)' PROVE c \in Counted(r) /\ calls[c].role = r /\ st \in {"failed", "fatal"}
  BY <1>1, <1>2, <1>4, <1>8 DEF Counted, CallsOf, Failed, OpenCalls
<1>9. QED
  BY <1>2, <1>4, <1>6, <1>7, <1>8

\* What the failure of the run leaves of the counted calls.
LEMMA DiscardedCounts ==
  ASSUME DiscardsCalls
  PROVE  OpenCalls' \subseteq OpenCalls /\ \A r : Counted(r)' \subseteq Counted(r)
<1>1. OpenCalls' \subseteq OpenCalls
  BY DEF DiscardsCalls, OpenCalls
<1>2. \A r : Successes(r) \subseteq Successes(r)'
  BY DEF DiscardsCalls, Successes, CallsOf
<1>3. ASSUME NEW r, NEW i \in Counted(r)' PROVE i \in Counted(r)
  BY <1>1, <1>2, <1>3 DEF DiscardsCalls, Counted, Failed, CallsOf, OpenCalls
<1>4. QED
  BY <1>1, <1>3

\* An error that leaves the run unfallen is the first of its role in a row, and passes.
LEMMA RetriedError ==
  ASSUME Typed, NEW e \in Executors, NEW st \in {"failed", "fatal"}, Error(e, st),
         calls[ex[e].call].st = "running", ex'[e].pc # "provider"
  PROVE  st = "failed" /\ Failed(calls[ex[e].call].role) = {}
<1> DEFINE role == calls[ex[e].call].role
<1>1. ex \in [Executors -> ExecutorRow] /\ calls \in Seq(CallRow)
  BY DEF Typed, RowsAreTyped
<1>2. Retriable(role, TRUE, st)
  BY <1>1 DEF Error, Goto, ExecutorRow
<1>3. st = "failed" /\ Failures(role) + 1 <= 1
  BY <1>2 DEF Retriable
<1>4. Failures(role) = Cardinality(Failed(role)) /\ IsFiniteSet(Failed(role))
  BY <1>1, CountsAreFinite DEF Failures, Failed
<1>5. QED
  BY <1>3, <1>4, FS_EmptySet, FS_CardinalityType

\* The owner of a run that has not fallen keeps a run that has not fallen.
LEMMA UnfallenBefore ==
  ASSUME Typed, TokensTell, NEW e \in Executors, Step(e) \/ Crash(e), Unfallen'
  PROVE  Unfallen /\ UNCHANGED run.gen
<1>1. Active /\ UNCHANGED run.gen /\ Active'
  BY ActiveBefore DEF Unfallen
<1>2. ex[e].token = run.gen => ex[e].pc \notin {"provider", "raised"}
  BY <1>1, FallersFall DEF Unfallen
<1>3. \A f \in Executors \ {e} : ex'[f] = ex[f]
  BY StepOfOwner DEF Moves
<1>4. QED
  BY <1>1, <1>2, <1>3 DEF Unfallen

\* The owner that asks had no open call, and its run had not fallen.
LEMMA AskersAreCalm ==
  ASSUME Typed, TokensTell, NEW e \in Executors, Asks(e), Fenced(e)
  PROVE  Unfallen /\ Mine = {}
<1>1. Working(e) /\ ex[e].token = run.gen /\ Active /\ ex[e].pc \notin {"provider", "raised", "asked"}
  BY DEF Asks, Fenced, Working
<1>2. \A f \in Executors \ {e} : ex[f].token = run.gen => ex[f].pc \in {"idle", "done"}
  BY <1>1, OwnerIsOne
<1>3. QED
  BY <1>1, <1>2 DEF Unfallen, Mine

\* The failures of a role, the open calls counted in, stay within their bounds.
LEMMA FailuresStep ==
  ASSUME Typed, TokensTell, FailuresAreCounted, [LoopNext]_vars
  PROVE  FailuresAreCounted'
<1>0. /\ run \in RunRow /\ taken \in Nat /\ calls \in Seq(CallRow) /\ Len(calls) \in Nat
      /\ ex \in [Executors -> ExecutorRow] /\ CallsAreHeld
  BY LimitsAssumption DEF Typed, RowsAreTyped
<1>a. /\ IsFiniteSet(OpenCalls) /\ IsFiniteSet(OpenCalls \ Mine)
      /\ \A role : IsFiniteSet(Counted(role)) /\ IsFiniteSet(Counted(role) \ Mine)
  BY <1>0, CountsAreFinite
<1>b. 1 + taken \in Nat /\ 2 + taken \in Nat
  BY <1>0
<1>1. CASE Outside
  <2>1. UNCHANGED <<calls, ex>>
    BY <1>1, OutsidePackage
  <2>2. OpenCalls' = OpenCalls /\ \A role : Counted(role)' = Counted(role)
    BY <2>1 DEF OpenCalls, Counted, CallsOf, Failed, Successes
  <2>3. CASE Continue
    <3>1. /\ run'.gen = run.gen + 1 /\ run.status = "waiting" /\ UNCHANGED taken
      BY <1>0, <2>3 DEF Continue, RunRow
    <3>2. Unfallen /\ Mine = {}
      BY <3>1, WaitingIsUnowned DEF Unfallen, Active, Mine
    <3>3. (OpenCalls \ Mine)' \subseteq OpenCalls \ Mine
          /\ \A role : (Counted(role) \ Mine)' \subseteq Counted(role) \ Mine
      BY <2>2, <3>2
    <3>4. QED
      BY <1>0, <2>2, <3>1, <3>2, <3>3, SmallerSet, CountsAreFinite DEF FailuresAreCounted
  <2>4. CASE Recover
    <3>1. taken' = taken + 1
      BY <2>4 DEF Recover
    <3>2. (OpenCalls \ Mine)' \subseteq OpenCalls
          /\ \A role : (Counted(role) \ Mine)' \subseteq Counted(role)
      BY <2>2
    <3>3. Cardinality((OpenCalls \ Mine)') <= 1 + taken
      BY <1>0, <3>2, SmallerSet, CountsAreFinite DEF FailuresAreCounted
    <3>4. ASSUME NEW role \in Roles PROVE Cardinality((Counted(role) \ Mine)') <= 2 + taken
      <4>1. IsFiniteSet(Counted(role)) /\ Cardinality(Counted(role)) <= 2 + taken
        BY <1>a DEF FailuresAreCounted
      <4>2. QED
        BY <1>b, <3>2, <4>1, SmallerSet
    <3>5. /\ Cardinality(OpenCalls') \in Nat /\ \A role \in Roles : Cardinality(Counted(role)') \in Nat
          /\ Cardinality((OpenCalls \ Mine)') \in Nat
          /\ \A role \in Roles : Cardinality((Counted(role) \ Mine)') \in Nat
      BY <1>0, <2>2, <3>2, CountsAreFinite, FS_Subset, FS_CardinalityType
    <3>6. QED
      BY <1>0, <2>2, <3>1, <3>3, <3>4, <3>5 DEF FailuresAreCounted
  <2>5. CASE Abort
    <3>1. ~Active' /\ UNCHANGED taken
      BY <1>0, <2>5 DEF Abort, RunRow, Active
    <3>2. QED
      BY <2>2, <3>1 DEF FailuresAreCounted, Unfallen
  <2>6. CASE UNCHANGED <<run, taken>>
    <3>1. Mine' = Mine /\ (Unfallen' => Unfallen)
      BY <2>1, <2>6 DEF Mine, Unfallen, Active
    <3>2. QED
      BY <2>2, <2>6, <3>1 DEF FailuresAreCounted
  <2>7. QED
    BY <1>1, <2>3, <2>4, <2>5, <2>6 DEF Outside, Burn, EditProcess, Ended, vars
<1>2. ASSUME NEW e \in Executors, Step(e) \/ Crash(e) PROVE FailuresAreCounted'
  <2>1. (\A f \in Executors \ {e} : ex'[f] = ex[f]) /\ UNCHANGED taken
    BY <1>2, StepOfOwner DEF Moves
  <2>2. ASSUME OpenCalls' \subseteq OpenCalls, \A r : Counted(r)' \subseteq Counted(r),
               Unfallen' => /\ (OpenCalls \ Mine)' \subseteq OpenCalls \ Mine
                            /\ \A r : (Counted(r) \ Mine)' \subseteq Counted(r) \ Mine
        PROVE  FailuresAreCounted'
    <3>1. Unfallen' => Unfallen
      BY <1>2, UnfallenBefore
    <3>2. Cardinality(OpenCalls') <= 1 + taken
      BY <1>0, <2>2, SmallerSet, CountsAreFinite DEF FailuresAreCounted
    <3>3. ASSUME NEW role \in Roles PROVE Cardinality(Counted(role)') <= 2 + taken
      <4>1. IsFiniteSet(Counted(role)) /\ Cardinality(Counted(role)) <= 2 + taken
        BY <1>a DEF FailuresAreCounted
      <4>2. QED
        BY <1>b, <2>2, <4>1, SmallerSet
    <3>4. Unfallen' => Cardinality((OpenCalls \ Mine)') <= taken
      BY <1>0, <2>2, <3>1, SmallerSet, CountsAreFinite DEF FailuresAreCounted
    <3>5. ASSUME Unfallen', NEW role \in Roles PROVE Cardinality((Counted(role) \ Mine)') <= 1 + taken
      <4>1. /\ IsFiniteSet(Counted(role) \ Mine)
            /\ Cardinality(Counted(role) \ Mine) <= 1 + taken
        BY <1>a, <3>1, <3>5 DEF FailuresAreCounted
      <4>2. QED
        BY <1>b, <2>2, <3>5, <4>1, SmallerSet
    <3>6. QED
      BY <2>1, <3>2, <3>3, <3>4, <3>5 DEF FailuresAreCounted
  <2>3. CASE UNCHANGED calls
    <3>1. OpenCalls' = OpenCalls /\ \A r : Counted(r)' = Counted(r)
      BY <2>3 DEF OpenCalls, Counted, CallsOf, Failed, Successes
    <3>2. ASSUME Unfallen' PROVE Mine \subseteq Mine'
      <4>1. Active /\ UNCHANGED run.gen
        BY <1>2, <3>2, ActiveBefore DEF Unfallen
      <4>2. ASSUME ex[e].pc = "asked", ex[e].token = run.gen PROVE FALSE
        <5>1. calls[ex[e].call].st = "running"
          BY <1>0, <4>1, <4>2 DEF CallsAreHeld, Active
        <5>2. ~Settles(e)
          <6>1. ASSUME NEW st \in CallStates \ {"running"},
                       calls'[ex[e].call] = [role |-> calls[ex[e].call].role, st |-> st]
                PROVE  FALSE
            BY <2>3, <5>1, <6>1
          <6>2. QED
            BY <6>1 DEF Settles
        <5>3. ex'[e].pc = "raised" /\ ex'[e].token = run'.gen
          BY <1>2, <4>1, <4>2, <5>1, <5>2, AskersSettle, StepOfOwner DEF Leaves, Stays, Start
        <5>4. QED
          BY <3>2, <5>3 DEF Unfallen
      <4>3. QED
        BY <2>1, <2>3, <4>1, <4>2 DEF Mine
    <3>3. QED
      BY <2>2, <3>1, <3>2
  <2>4. CASE Asks(e) /\ Fenced(e) /\ UNCHANGED run
    <3>1. Unfallen /\ Mine = {}
      BY <2>4, AskersAreCalm
    <3>2. RoleOf(ex[e].pc) \in Roles
      BY <2>4 DEF Asks, RoleOf, Roles
    <3>3. /\ OpenCalls' \subseteq OpenCalls \cup {Len(calls) + 1}
          /\ \A r : Counted(r)' \subseteq Counted(r) \cup {Len(calls) + 1}
          /\ Len(calls) + 1 \in DOMAIN calls'
      BY <1>0, <2>4, <3>2, AskedCounts DEF Asks
    <3>4. Len(calls) + 1 \in Mine'
      <4>1. ex'[e].token = ex[e].token
        BY <1>2, <2>4, StepOfOwner DEF Leaves, Stays, Start, Asks
      <4>2. QED
        BY <2>4, <3>3, <4>1 DEF Mine, Asks, Fenced
    <3>5. Cardinality(OpenCalls) <= taken /\ \A role \in Roles : Cardinality(Counted(role)) <= 1 + taken
      <4>1. OpenCalls \ Mine = OpenCalls /\ \A role \in Roles : Counted(role) \ Mine = Counted(role)
        BY <3>1
      <4>2. QED
        BY <3>1, <4>1 DEF FailuresAreCounted
    <3>6. Cardinality(OpenCalls') <= taken + 1
      BY <1>0, <3>3, <3>5, OneMore, CountsAreFinite
    <3>7. ASSUME NEW role \in Roles PROVE Cardinality(Counted(role)') <= (1 + taken) + 1
      <4>1. IsFiniteSet(Counted(role)) /\ Cardinality(Counted(role)) <= 1 + taken
        BY <1>a, <3>5
      <4>2. QED
        BY <1>b, <3>3, <4>1, OneMore
    <3>8. Cardinality((OpenCalls \ Mine)') <= taken
      <4>1. (OpenCalls \ Mine)' \subseteq OpenCalls
        BY <3>3, <3>4
      <4>2. QED
        BY <1>0, <3>5, <4>1, SmallerSet, CountsAreFinite
    <3>9. ASSUME NEW role \in Roles PROVE Cardinality((Counted(role) \ Mine)') <= 1 + taken
      <4>1. (Counted(role) \ Mine)' \subseteq Counted(role)
        BY <3>3, <3>4
      <4>2. IsFiniteSet(Counted(role)) /\ Cardinality(Counted(role)) <= 1 + taken
        BY <1>a, <3>5
      <4>3. QED
        BY <1>b, <4>1, <4>2, SmallerSet
    <3>10. (1 + taken) + 1 = 2 + taken
      BY <1>0
    <3>11. taken + 1 = 1 + taken
      BY <1>0
    <3>12. QED
      BY <2>1, <3>6, <3>7, <3>8, <3>9, <3>10, <3>11 DEF FailuresAreCounted
  <2>5. CASE Settles(e)
    <3> DEFINE c == ex[e].call
    <3>1. /\ OpenCalls' \subseteq OpenCalls \ {c} /\ \A r : Counted(r)' \subseteq Counted(r)
          /\ \A r : calls'[c].st \in {"failed", "fatal"} \/ Counted(r)' \subseteq Counted(r) \ {c}
          /\ \A r : r # calls[c].role => c \notin Counted(r)'
          /\ \A r : Failed(r)' \subseteq Failed(r) \cup {c}
      BY <2>5, SettledCounts
    <3>2. ex[e].pc = "asked" /\ Working(e)
      BY <2>5 DEF Settles, Working
    <3>3. CASE ex[e].token # run.gen \/ ~Unfallen'
      <4>1. ASSUME Unfallen' PROVE Mine \subseteq Mine'
        <5>1. UNCHANGED run.gen /\ ex[e].token # run.gen
          BY <1>2, <3>3, <4>1, UnfallenBefore
        <5>2. QED
          BY <2>1, <2>5, <5>1 DEF Mine, Settles
      <4>2. QED
        BY <2>2, <3>1, <4>1
    <3>4. CASE ex[e].token = run.gen /\ Unfallen'
      <4>1. Unfallen /\ UNCHANGED run.gen
        BY <1>2, <3>4, UnfallenBefore
      <4>2. Mine = {c}
        <5>1. c \in DOMAIN calls
          BY <1>0, <3>2 DEF CallsAreHeld
        <5>2. \A f \in Executors \ {e} : ex[f].token = run.gen => ex[f].pc \in {"idle", "done"}
          BY <3>2, <3>4, OwnerIsOne
        <5>3. QED
          BY <3>2, <3>4, <5>1, <5>2 DEF Mine
      <4>3. CASE calls'[c].st \notin {"failed", "fatal"}
        BY <2>2, <3>1, <4>2, <4>3
      <4>4. CASE calls'[c].st \in {"failed", "fatal"}
        <5> DEFINE role == calls[c].role
        <5>1. PICK st \in {"failed", "fatal"} : Error(e, st) /\ calls[c].st = "running"
          BY <2>5, <4>4 DEF Settles
        <5>2. ex'[e].pc # "provider"
          <6>1. ex'[e].pc = "provider" => ex'[e].token = run'.gen
            BY <1>2, <3>2, <3>4, <4>1, StepOfOwner DEF Leaves, Stays, Start
          <6>2. QED
            BY <3>4, <6>1 DEF Unfallen
        <5>3. Failed(role) = {}
          BY <5>1, <5>2, RetriedError
        <5>4. (OpenCalls \ Mine)' \subseteq OpenCalls \ Mine
          BY <3>1, <4>2
        <5>5. ASSUME NEW r \in Roles PROVE Cardinality((Counted(r) \ Mine)') <= 1 + taken
          <6>1. CASE r # role
            <7>1. (Counted(r) \ Mine)' \subseteq Counted(r) \ Mine
              BY <3>1, <4>2, <6>1
            <7>2. Cardinality(Counted(r) \ Mine) <= 1 + taken
              BY <4>1 DEF FailuresAreCounted
            <7>3. QED
              BY <1>0, <7>1, <7>2, SmallerSet, CountsAreFinite
          <6>2. CASE r = role
            <7>1. Failed(r)' \subseteq {c}
              BY <3>1, <5>3, <6>2
            <7>2. Counted(r)' \subseteq (OpenCalls \ Mine) \cup {c}
              BY <3>1, <4>2, <7>1 DEF Counted
            <7>3. Cardinality(OpenCalls \ Mine) <= taken /\ IsFiniteSet(OpenCalls \ Mine)
              BY <1>0, <4>1, CountsAreFinite DEF FailuresAreCounted
            <7>4. Cardinality((Counted(r) \ Mine)') <= taken + 1
              BY <1>0, <7>2, <7>3, OneMore
            <7>5. QED
              BY <1>0, <7>4
          <6>3. QED
            BY <6>1, <6>2
        <5>6. Cardinality((OpenCalls \ Mine)') <= taken
          BY <1>0, <4>1, <5>4, SmallerSet, CountsAreFinite DEF FailuresAreCounted
        <5>7. Cardinality(OpenCalls') <= 1 + taken
          BY <1>0, <3>1, SmallerSet, CountsAreFinite DEF FailuresAreCounted
        <5>8. ASSUME NEW r \in Roles PROVE Cardinality(Counted(r)') <= 2 + taken
          <6>1. IsFiniteSet(Counted(r)) /\ Cardinality(Counted(r)) <= 2 + taken
            BY <1>a DEF FailuresAreCounted
          <6>2. QED
            BY <1>b, <3>1, <6>1, SmallerSet
        <5>9. QED
          BY <2>1, <5>5, <5>6, <5>7, <5>8 DEF FailuresAreCounted
      <4>5. QED
        BY <4>3, <4>4
    <3>5. QED
      BY <3>3, <3>4
  <2>6. CASE DiscardsCalls
    <3>1. ~Unfallen'
      BY <2>6 DEF DiscardsCalls, Unfallen, Active
    <3>2. QED
      BY <2>2, <2>6, <3>1, DiscardedCounts
  <2>7. QED
    BY <1>2, <2>3, <2>4, <2>5, <2>6, CallsChange
<1>3. QED
  BY <1>1, <1>2, StepsOfTheLoop

\* Before the first takeover nothing is asked after an error that does not pass.
LEMMA FatalStep ==
  ASSUME Typed, TokensTell, NobodyElse, FatalIsLast, [LoopNext]_vars
  PROVE  FatalIsLast'
<1>0. /\ run \in RunRow /\ taken \in Nat /\ calls \in Seq(CallRow) /\ CallsAreHeld
      /\ ex \in [Executors -> ExecutorRow]
  BY LimitsAssumption DEF Typed, RowsAreTyped
<1>1. CASE Outside
  <2>1. UNCHANGED <<calls, ex>> /\ (taken' = 0 => taken = 0)
    BY <1>1, OutsidePackage
  <2>2. ASSUME taken' = 0, Unfallen' PROVE Unfallen
    <3>1. CASE Continue
      BY <3>1, WaitingIsUnowned DEF Continue, Unfallen, Active
    <3>2. CASE Recover
      BY <1>0, <2>2, <3>2 DEF Recover
    <3>3. CASE Abort
      BY <1>0, <2>2, <3>3 DEF Abort, RunRow, Unfallen, Active
    <3>4. CASE UNCHANGED run
      BY <2>1, <2>2, <3>4 DEF Unfallen, Active
    <3>5. QED
      BY <1>1, <3>1, <3>2, <3>3, <3>4 DEF Outside, Burn, EditProcess, Ended, vars
  <2>3. QED
    BY <2>1, <2>2 DEF FatalIsLast
<1>2. ASSUME NEW e \in Executors, Step(e) \/ Crash(e), taken = 0 PROVE FatalIsLast'
  <2>1. Unfallen' => Unfallen
    BY <1>2, UnfallenBefore
  <2>2. CASE UNCHANGED calls
    BY <1>2, <2>1, <2>2 DEF FatalIsLast
  <2>3. CASE Asks(e) /\ Fenced(e)
    <3>1. Unfallen
      BY <2>3, AskersAreCalm
    <3>2. RoleOf(ex[e].pc) \in Roles
      BY <2>3 DEF Asks, RoleOf, Roles
    <3>3. \A i \in DOMAIN calls' : calls'[i].st # "fatal"
      BY <1>0, <1>2, <2>3, <3>1, <3>2, AskedCounts DEF Asks, FatalIsLast
    <3>4. QED
      BY <3>3 DEF FatalIsLast
  <2>4. CASE Settles(e)
    <3>1. /\ ex[e].call = Len(calls) /\ DOMAIN calls' = DOMAIN calls /\ ex[e].call \in DOMAIN calls
          /\ \A i \in DOMAIN calls \ {ex[e].call} : calls'[i] = calls[i]
      BY <1>0, <1>2, <2>4 DEF Settles, CallsAreHeld
    <3>2. PICK st \in CallStates \ {"running"} :
            /\ calls'[ex[e].call] = [role |-> calls[ex[e].call].role, st |-> st]
            /\ st \in {"failed", "fatal"} => Error(e, st) /\ calls[ex[e].call].st = "running"
      BY <2>4 DEF Settles
    <3>3. Len(calls') = Len(calls)
      BY <1>0, <1>2, <3>1, LoopTypesStep, LenProperties DEF RowsAreTyped
    <3>4. ASSUME Unfallen', st = "fatal" PROVE FALSE
      <4>1. ex'[e].pc = "provider"
        BY <3>2, <3>4, RetriedError
      <4>2. ex'[e].token = run'.gen
        <5>1. Working(e) /\ ex[e].token = run.gen
          BY <1>2, <2>1, <2>4, <3>4 DEF Settles, Working, NobodyElse, Unfallen
        <5>2. QED
          BY <1>2, <3>4, <4>1, <5>1, StepOfOwner, UnfallenBefore DEF Leaves, Stays, Start
      <4>3. QED
        BY <3>4, <4>1, <4>2 DEF Unfallen
    <3>5. QED
      BY <1>2, <2>1, <3>1, <3>2, <3>3, <3>4 DEF FatalIsLast
  <2>5. CASE DiscardsCalls
    <3>1. ~Unfallen'
      BY <2>5 DEF DiscardsCalls, Unfallen, Active
    <3>2. DOMAIN calls' = DOMAIN calls /\ \A i \in DOMAIN calls : calls'[i].st = "fatal" => calls[i].st = "fatal"
      BY <2>5 DEF DiscardsCalls
    <3>3. Len(calls') = Len(calls)
      BY <1>0, <1>2, <3>2, LoopTypesStep, LenProperties DEF RowsAreTyped
    <3>4. QED
      BY <1>2, <3>1, <3>2, <3>3 DEF FatalIsLast
  <2>6. QED
    BY <1>2, <2>2, <2>3, <2>4, <2>5, CallsChange
<1>3. ASSUME taken # 0, ~Outside PROVE FatalIsLast'
  BY <1>3, StepsOfTheLoop, StepOfOwner DEF FatalIsLast
<1>4. QED
  BY <1>1, <1>2, <1>3, StepsOfTheLoop

----------------------------------------------------------------------------
(* The invariant holds. *)

\* A run begins with nothing asked, nothing open and nobody at work.
LEMMA LoopInvInit ==
  ASSUME Init
  PROVE  LoopInv
<1>0. /\ 0 \in 0 .. MaxHandovers /\ 0 \in 0 .. MaxTools /\ 0 \in 0 .. MaxReads /\ 0 \in 0 .. MaxChurn + 1
      /\ MaxCalls \in Nat /\ MaxRepeats \in Nat
  BY LimitsAssumption
<1>1. run \in RunRow
  <2>1. None \in Prints
    BY DEF Prints
  <2>2. QED
    BY <1>0, <2>1 DEF Init, RunRow, Terminal, Reasons
<1>2. ex = [e \in Executors |-> Idle] /\ Idle \in ExecutorRow
  BY IdleIsARow DEF Init
<1>3. calls = <<>> /\ calls \in Seq(CallRow) /\ DOMAIN calls = {} /\ Len(calls) = 0
  <2>1. calls = <<>>
    BY DEF Init
  <2>2. QED
    BY <2>1, EmptySeq
<1>4. RowsAreTyped
  <2>1. steps \in [Keys -> StepRow]
    <3>1. [st |-> "none", tries |-> 0] \in StepRow
      BY DEF StepRow, StepStates
    <3>2. steps = [k \in Keys |-> [st |-> "none", tries |-> 0]]
      BY DEF Init
    <3>3. QED
      BY <3>1, <3>2
  <2>2. report = None /\ level = "open" /\ moved = FALSE /\ taken = 0
    BY DEF Init
  <2>3. Len(calls) <= MaxCalls
    BY <1>0, <1>3
  <2>4. ex \in [Executors -> ExecutorRow]
    BY <1>2
  <2>5. calls \in Seq(CallRow)
    BY <1>3
  <2>6. QED
    BY <1>0, <1>1, <2>1, <2>2, <2>3, <2>4, <2>5 DEF RowsAreTyped
<1>5. \A e \in Executors : ex[e].pc = "idle" /\ ex[e].token = 0
  BY <1>2 DEF Idle
<1>6. \A e \in Executors : Fits(ex[e])
  BY <1>5 DEF Fits
<1>7. TokensTell /\ NobodyElse /\ StepsAreHeld /\ CallsAreHeld /\ VerdictsAreBound
  <2>1. run.gen = 0 /\ report = None
    BY DEF Init
  <2>2. QED
    BY <1>5, <2>1 DEF TokensTell, NobodyElse, StepsAreHeld, CallsAreHeld, VerdictsAreBound, Working
<1>8. SourcesWereRead /\ RelevanceFollows /\ ReadyIsEarned
  BY <1>5 DEF Init, SourcesWereRead, RelevanceFollows, ReadyIsEarned
<1>9. RepeatsAreCounted
  <2>1. run.repeated.times = 0 /\ taken = 0
    BY DEF Init
  <2>2. QED
    BY <1>0, <2>1 DEF RepeatsAreCounted
<1>10. OpenCalls = {} /\ Mine = {} /\ \A role : Counted(role) = {}
  BY <1>3 DEF OpenCalls, Mine, Counted, CallsOf
<1>11. FailuresAreCounted
  <2>1. taken = 0
    BY DEF Init
  <2>2. OpenCalls \ Mine = {} /\ \A role : Counted(role) \ Mine = {}
    BY <1>10
  <2>3. /\ Cardinality(OpenCalls) = 0 /\ Cardinality(OpenCalls \ Mine) = 0
        /\ \A role : Cardinality(Counted(role)) = 0 /\ Cardinality(Counted(role) \ Mine) = 0
    BY <1>10, <2>2, FS_EmptySet
  <2>4. QED
    BY <2>1, <2>3 DEF FailuresAreCounted
<1>12. FatalIsLast /\ OpenWorkIsOwned
  BY <1>3 DEF Init, FatalIsLast, OpenWorkIsOwned
<1>13. QED
  BY <1>4, <1>6, <1>7, <1>8, <1>9, <1>11, <1>12 DEF LoopInv

\* Every step of the loop preserves the invariant.
LEMMA LoopInvStep ==
  ASSUME LoopInv, [LoopNext]_vars
  PROVE  LoopInv'
<1>1. Typed
  BY DEF LoopInv, Typed
<1>2. RowsAreTyped' /\ (\A e \in Executors : Fits(ex[e]))'
  BY <1>1, LoopTypesStep
<1>3. TokensTell' /\ NobodyElse' /\ StepsAreHeld' /\ CallsAreHeld'
  BY <1>1, TokensStep, StepsHeldStep, CallsHeldStep DEF LoopInv
<1>4. SourcesWereRead' /\ VerdictsAreBound' /\ RelevanceFollows'
  BY <1>1, SourcesStep, VerdictsStep, RelevanceStep DEF LoopInv
<1>5. RepeatsAreCounted' /\ FailuresAreCounted' /\ FatalIsLast'
  BY <1>1, RepeatsStep, FailuresStep, FatalStep DEF LoopInv
<1>6. OpenWorkIsOwned' /\ ReadyIsEarned'
  BY <1>1, OpenWorkStep, ReadyStep DEF LoopInv
<1>7. QED
  BY <1>2, <1>3, <1>4, <1>5, <1>6 DEF LoopInv

\* The inductive invariant of the loop.
THEOREM LoopInvariant == LoopSpec => []LoopInv
<1>1. Init => LoopInv
  BY LoopInvInit
<1>2. LoopInv /\ [LoopNext]_vars => LoopInv'
  BY LoopInvStep
<1>3. QED
  BY <1>1, <1>2, PTL DEF LoopSpec

\* Every row and every executor of the loop holds values of its kind.
THEOREM LoopTypes == LoopSpec => []LoopTypeOK
<1>1. LoopInv => LoopTypeOK
  <2>1. SUFFICES ASSUME LoopInv PROVE LoopTypeOK
    OBVIOUS
  <2>2. RowsAreTyped /\ TokensTell /\ RepeatsAreCounted
    BY <2>1 DEF LoopInv
  <2>3. /\ run.status \in Terminal \cup {"running", "waiting"} /\ run.reason \in Reasons \cup {""}
        /\ run.gen \in Nat /\ run.tools \in 0 .. MaxTools /\ run.reads \in 0 .. MaxReads
        /\ run.since \in 0 .. MaxChurn + 1 /\ run.repeated.times \in Nat
    BY <2>2 DEF RowsAreTyped, RunRow
  <2>4. Hash \in Hashes
    BY <2>2, HashType DEF RowsAreTyped
  <2>5. run.repeated.times \in 0 .. MaxRepeats + 1 + taken
    <3>1. taken \in Nat /\ MaxRepeats \in Nat
      BY <2>2, LimitsAssumption DEF RowsAreTyped
    <3>2. run.repeated.times <= MaxRepeats + 1 + taken
      BY <2>2 DEF RepeatsAreCounted
    <3>3. run.repeated.times \in Nat
      BY <2>3
    <3>4. QED
      BY <3>1, <3>2, <3>3
  <2>6. steps \in [Keys -> [st : {"none", "running", "success", "failed", "broken", "discarded"},
                            tries : 0 .. 2]]
    BY <2>2 DEF RowsAreTyped, StepRow, StepStates
  <2>7. /\ calls \in Seq([role : Roles, st : {"running", "success", "failed", "fatal", "discarded"}])
        /\ Len(calls) <= MaxCalls
    BY <2>2 DEF RowsAreTyped, CallRow, CallStates
  <2>8. ASSUME NEW e \in Executors
        PROVE  ex[e].pc \in Labels /\ ex[e].token \in 0 .. run.gen /\ ex[e].round \in 0 .. MaxIterations
    <3>1. ex[e].pc \in Labels /\ ex[e].token \in Nat /\ ex[e].round \in 0 .. MaxIterations
      BY <2>2 DEF RowsAreTyped, ExecutorRow
    <3>2. ex[e].token <= run.gen
      BY <2>2 DEF TokensTell
    <3>3. run.gen \in Nat
      BY <2>3
    <3>4. ex[e].token \in 0 .. run.gen
      BY <3>1, <3>2, <3>3
    <3>5. QED
      BY <3>1, <3>4
  <2>9. QED
    BY <2>2, <2>3, <2>4, <2>5, <2>6, <2>7, <2>8 DEF LoopTypeOK, RowsAreTyped
<1>2. QED
  BY <1>1, LoopInvariant, PTL

\* A run that is ready before the first takeover was earned: the package about to be
\* adopted is the one the verifier was shown and approved, and its relevant
\* sources were read (_set_ready, _record_verifier_report).
THEOREM ReadyIsAlwaysEarned == LoopSpec => []ReadyIsEarned
<1>1. LoopInv => ReadyIsEarned
  BY DEF LoopInv
<1>2. QED
  BY <1>1, LoopInvariant, PTL

\* Failures of a role in a row are bounded by the retry and the takeovers, and
\* nothing is asked after an error that does not pass (consecutive_role_failures).
THEOREM RetriesAreAlwaysBounded == LoopSpec => []RetriesAreBounded
<1>1. LoopInv => RetriesAreBounded
  <2>1. SUFFICES ASSUME LoopInv PROVE RetriesAreBounded
    OBVIOUS
  <2>2. calls \in Seq(CallRow) /\ taken \in Nat
    BY <2>1, LimitsAssumption DEF LoopInv, RowsAreTyped
  <2>3. ASSUME NEW role \in Roles PROVE Failures(role) <= 2 + taken
    <3>1. Failures(role) = Cardinality(Failed(role))
      BY DEF Failures, Failed
    <3>2. IsFiniteSet(Counted(role)) /\ Failed(role) \subseteq Counted(role)
      BY <2>2, CountsAreFinite
    <3>3. Cardinality(Counted(role)) <= 2 + taken
      BY <2>1 DEF LoopInv, FailuresAreCounted
    <3>4. 2 + taken \in Nat
      BY <2>2
    <3>5. QED
      BY <3>1, <3>2, <3>3, <3>4, SmallerSet
  <2>4. ASSUME NEW k \in Keys PROVE steps[k].tries <= 2
    <3>1. steps[k].tries \in 0 .. 2
      BY <2>1 DEF LoopInv, RowsAreTyped, StepRow
    <3>2. QED
      BY <3>1
  <2>5. QED
    BY <2>1, <2>3, <2>4 DEF RetriesAreBounded, LoopInv, FatalIsLast
<1>2. QED
  BY <1>1, LoopInvariant, PTL

\* Before the first takeover a step or a call that is open has an executor that
\* will settle it, or falls with the run (fail_execution).
THEOREM OpenWorkIsAlwaysOwned == LoopSpec => []OpenWorkIsOwned
<1>1. LoopInv => OpenWorkIsOwned
  BY DEF LoopInv
<1>2. QED
  BY <1>1, LoopInvariant, PTL

\* The loop implements the contract of a run: whoever ends the run or hands it on
\* starts a new generation, whoever pauses it does not.
THEOREM ContractOfTheRun == LoopSpec => KeepsContract
<1> DEFINE state == IF run.status \in Terminal THEN "ended" ELSE run.status
<1>1. Init => Contract!Init
  <2>1. SUFFICES ASSUME Init PROVE Contract!Init
    OBVIOUS
  <2>2. run.status = "running" /\ run.gen = 0
    BY <2>1 DEF Init
  <2>3. QED
    BY <2>2 DEF Contract!Init, Terminal
<1>2. LoopInv /\ [LoopNext]_vars => [Contract!Next]_<<state, run.gen>>
  <2>1. SUFFICES ASSUME LoopInv, [LoopNext]_vars PROVE [Contract!Next]_<<state, run.gen>>
    OBVIOUS
  <2>2. Typed /\ run \in RunRow
    BY <2>1 DEF LoopInv, Typed, RowsAreTyped
  <2>3. CASE UNCHANGED <<run.status, run.gen>>
    BY <2>3
  <2>4. ASSUME NEW e \in Executors, Step(e) \/ Crash(e), ~UNCHANGED <<run.status, run.gen>>
        PROVE  [Contract!Next]_<<state, run.gen>>
    <3>1. CASE Suspend(e) /\ run'.status = "waiting" /\ UNCHANGED run.gen
      BY <3>1 DEF Suspend, Fenced, Active, Contract!Next, Contract!Pause, Terminal
    <3>2. CASE EndsRun(e)
      BY <2>2, <3>2 DEF EndsRun, Ends, Contract!Next, Contract!End, RunRow, Terminal
    <3>3. QED
      BY <2>2, <2>4, <3>1, <3>2, StepOfOwner
  <2>5. CASE Outside
    <3>1. CASE Continue
      <4>1. run.status = "waiting" /\ run'.status = "running" /\ run'.gen = run.gen + 1
        BY <2>2, <3>1 DEF Continue, RunRow
      <4>2. QED
        BY <4>1 DEF Contract!Next, Contract!Resume, Terminal
    <3>2. CASE Abort
      <4>1. Active /\ run'.status = "aborted" /\ run'.gen = run.gen + 1
        BY <2>2, <3>2 DEF Abort, RunRow
      <4>2. QED
        BY <4>1 DEF Contract!Next, Contract!End, Active, Terminal
    <3>3. CASE Recover
      <4>1. run.status = "running" /\ run'.status = "running" /\ run'.gen = run.gen + 1
        BY <2>2, <3>3 DEF Recover, RunRow
      <4>2. QED
        BY <4>1 DEF Contract!Next, Contract!HandOver, Terminal
    <3>4. CASE UNCHANGED run
      BY <2>3, <3>4
    <3>5. QED
      BY <2>5, <3>1, <3>2, <3>3, <3>4 DEF Outside, Burn, EditProcess, Ended, vars
  <2>6. QED
    BY <2>1, <2>3, <2>4, <2>5, StepsOfTheLoop
<1>3. QED
  BY <1>1, <1>2, LoopInvariant, PTL DEF LoopSpec, KeepsContract, Contract!Spec, Contract!vars

----------------------------------------------------------------------------
(* How long an executor may work.  An iteration has an order: plan,        *)
(* synthesis, package, tool, review.  Only a review goes round in it, to a *)
(* source it has not asked for yet.                                        *)

Rank(label) ==
  CASE label = "loop"       -> 17
    [] label = "plan"       -> 16
    [] label = "synthesize" -> 14
    [] label = "apply"      -> 12
    [] label = "relate"     -> 11
    [] label = "note"       -> 10
    [] label = "tool"       -> 9
    [] label = "tooling"    -> 8
    [] label = "counter"    -> 7
    [] label = "read"       -> 6
    [] label = "reading"    -> 5
    [] label = "verify"     -> 4
    [] label = "record"     -> 2
    [] label \in {"provider", "contract"} -> 1
    [] OTHER                -> 0

\* An executor that waits for an answer is behind the label it asked at.
RankOfCall(role) ==
  CASE role = "planner" -> 15 [] role = "synthesizer" -> 13 [] role = "verifier" -> 3

At(e) == IF ex[e].pc = "asked" THEN RankOfCall(calls[ex[e].call].role) ELSE Rank(ex[e].pc)

\* The steps of one iteration, at most.
Lap == 18 * (Cardinality(Reads) + 1)

\* The steps an executor has left, at most.
Left(e) ==
  IF ex[e].pc \in {"idle", "done"} THEN 0
  ELSE IF ex[e].pc = "raised" THEN 1
  ELSE 2 + (MaxIterations - ex[e].round) * Lap + 18 * Cardinality(Reads \ ex[e].asked) + At(e)

\* The four ways a step of a working executor leads on.
Stops(e) == ex'[e].pc = "done" \/ (ex[e].pc # "raised" /\ ex'[e].pc = "raised")
Laps(e)  == /\ ex[e].pc # "raised" /\ ex'[e].pc = "loop" /\ ex[e].round < MaxIterations
            /\ ex'[e].round = ex[e].round + 1 /\ ex'[e].asked = {}
Drops(e) == /\ ex[e].pc # "raised" /\ ex'[e].pc \notin {"idle", "done", "raised"}
            /\ ex'[e].round = ex[e].round /\ ex'[e].asked = ex[e].asked /\ At(e)' < At(e)
Turns(e) == /\ ex[e].pc # "raised" /\ ex'[e].pc = "read" /\ ex'[e].round = ex[e].round
            /\ \E k \in Reads \ ex[e].asked : ex'[e].asked = ex[e].asked \cup {k}

\* Where a place ranks.
LEMMA RankType ==
  ASSUME NEW label
  PROVE  Rank(label) \in 0 .. 17
BY DEF Rank

\* A step to another place than a call's.
LEMMA Dropping ==
  ASSUME NEW e \in Executors, ex[e].pc # "raised",
         ex'[e].pc \notin {"asked", "idle", "done", "raised"},
         ex'[e].round = ex[e].round, ex'[e].asked = ex[e].asked, Rank(ex'[e].pc) < At(e)
  PROVE  Drops(e)
BY DEF Drops, At

\* Every step of a working executor is of one of the four kinds.
LEMMA WaysOn ==
  ASSUME Typed, NEW e \in Executors, Working(e), Step(e) \/ Crash(e)
  PROVE  Stops(e) \/ Laps(e) \/ Drops(e) \/ Turns(e)
<1>0. /\ Fits(ex[e]) /\ ex \in [Executors -> ExecutorRow] /\ ex[e] \in ExecutorRow
      /\ calls \in Seq(CallRow) /\ DOMAIN calls = 1 .. Len(calls) /\ Len(calls) \in Nat
  BY DEF Typed, RowsAreTyped
<1>1. ASSUME NEW l \in Labels, Goto(e, l)
      PROVE  ex'[e].pc = l /\ ex'[e].round = ex[e].round /\ ex'[e].asked = ex[e].asked
  BY <1>0, <1>1, Going DEF KeepsHands
<1>2. ASSUME Quit(e) PROVE Stops(e)
  BY <1>0, <1>2, Quitting DEF Stops
<1>3. ASSUME Raise(e), ex[e].pc # "raised" PROVE Stops(e)
  BY <1>0, <1>3, Raising DEF Stops
<1>4. ASSUME NextRound(e), ex[e].pc \notin {"idle", "done", "raised", "loop", "guard"} PROVE Laps(e)
  <2>1. ex[e].round < MaxIterations
    BY <1>0, <1>4 DEF Fits
  <2>2. /\ ex'[e] = [Idle EXCEPT !.pc = "loop", !.token = ex[e].token, !.round = ex[e].round + 1]
    BY <1>0, <1>4 DEF NextRound
  <2>3. ex'[e].pc = "loop" /\ ex'[e].round = ex[e].round + 1 /\ ex'[e].asked = {}
    BY <2>2 DEF Idle
  <2>4. QED
    BY <1>4, <2>1, <2>3 DEF Laps
<1>5. ASSUME NEW l \in Labels \ {"asked", "idle", "done", "raised"}, Goto(e, l), ex[e].pc # "raised",
             Rank(l) < At(e)
      PROVE  Drops(e)
  BY <1>1, <1>5, Dropping
<1>6. ASSUME NEW l \in Labels \ {"asked", "idle", "done", "raised"}, NEW what, Then(e, l, what),
             ex[e].pc # "raised", Rank(l) < At(e)
      PROVE  Drops(e)
  <2>1. ex'[e] = [ex[e] EXCEPT !.pc = l, !.act = what, !.call = 0]
    BY <1>0, <1>6 DEF Then
  <2>2. ex'[e].pc = l /\ ex'[e].round = ex[e].round /\ ex'[e].asked = ex[e].asked
    BY <1>0, <2>1 DEF ExecutorRow
  <2>3. QED
    BY <1>6, <2>2, Dropping
<1>7. CASE Start(e)
  BY <1>7 DEF Start, Working
<1>8. CASE Advance(e)
  <2>1. At(e) = 17
    BY <1>8 DEF Advance, At, Rank
  <2>2. \A l \in {"gap", "ready", "budget", "verify", "churn", "synthesize", "plan", "guard"} :
          Rank(l) < 17 /\ l \in Labels \ {"asked", "idle", "done", "raised"}
    BY DEF Rank, Labels, Writes
  <2>3. QED
    BY <1>3, <1>5, <1>8, <2>1, <2>2, RouteIsPlace DEF Advance
<1>9. CASE \/ Lockout(e) \/ Suspend(e) \/ MakeReady(e) \/ Fail(e) \/ LateAnswer(e)
            \/ ToolError(e, "failed") \/ ToolError(e, "broken") \/ Crash(e)
  BY <1>2, <1>3, <1>9 DEF Lockout, Suspend, MakeReady, Fail, LateAnswer, ToolError, Crash, Writes
<1>10. CASE FailExecution(e)
  BY <1>2, <1>10 DEF FailExecution
<1>11. CASE Ask(e)
  <2>1. CASE Refused(RoleOf(ex[e].pc))
    <3>1. Goto(e, "budget") /\ Rank("budget") < At(e) /\ ex[e].pc # "raised"
      BY <1>11, <2>1 DEF Ask, At, Rank
    <3>2. "budget" \in Labels \ {"asked", "idle", "done", "raised"}
      BY DEF Labels, Writes
    <3>3. QED
      BY <1>5, <3>1, <3>2
  <2>2. CASE ~Refused(RoleOf(ex[e].pc))
    <3>1. /\ ex[e].pc \in {"plan", "synthesize", "verify"}
          /\ calls' = Append(calls, [role |-> RoleOf(ex[e].pc), st |-> "running"])
          /\ ex'[e] = [ex[e] EXCEPT !.pc = "asked", !.call = Len(calls) + 1,
                         !.seen = IF RoleOf(ex[e].pc) = "verifier" THEN Hash ELSE None]
      BY <1>0, <1>11, <2>2 DEF Ask
    <3>2. /\ ex'[e].pc = "asked" /\ ex'[e].call = Len(calls) + 1
          /\ ex'[e].round = ex[e].round /\ ex'[e].asked = ex[e].asked
      BY <1>0, <3>1 DEF ExecutorRow
    <3>3. calls'[Len(calls) + 1].role = RoleOf(ex[e].pc)
      BY <1>0, <3>1
    <3>4. At(e)' = RankOfCall(RoleOf(ex[e].pc))
      BY <3>2, <3>3 DEF At
    <3>5. At(e) = Rank(ex[e].pc) /\ RankOfCall(RoleOf(ex[e].pc)) < Rank(ex[e].pc)
      BY <3>1 DEF At, Rank, RankOfCall, RoleOf
    <3>6. QED
      BY <3>1, <3>2, <3>4, <3>5 DEF Drops
  <2>3. QED
    BY <2>1, <2>2
<1>12. ASSUME NEW st, Error(e, st) PROVE Laps(e) \/ Drops(e)
  <2>1. ex[e].pc = "asked" /\ At(e) > 1
    <3>1. ex[e].pc = "asked" /\ calls[ex[e].call] \in CallRow
      BY <1>0, <1>12 DEF Error, Typed, CallsAreHeld
    <3>2. QED
      BY <3>1 DEF At, RankOfCall, CallRow, Roles
  <2>2. Rank("provider") = 1 /\ "provider" \in Labels \ {"asked", "idle", "done", "raised"}
    BY DEF Rank, Labels, Writes
  <2>3. NextRound(e) \/ Goto(e, "provider")
    BY <1>12 DEF Error
  <2>4. Goto(e, "provider") => Drops(e)
    BY <1>5, <2>1, <2>2
  <2>5. QED
    BY <1>4, <2>1, <2>3, <2>4
<1>13. CASE Planned(e)
  <2>1. ex[e].pc = "asked" /\ At(e) = 15
    BY <1>13 DEF Planned, Accepted, At, RankOfCall
  <2>2. \A l \in {"note", "synthesize", "contract"} :
          Rank(l) < 15 /\ l \in Labels \ {"asked", "idle", "done", "raised"}
    BY DEF Rank, Labels, Writes
  <2>3. Goto(e, "synthesize") \/ Goto(e, "contract") \/ \E what : Then(e, "note", what)
    BY <1>13 DEF Planned
  <2>4. QED
    BY <1>5, <1>6, <2>1, <2>2, <2>3
<1>14. CASE Synthesized(e)
  <2>1. ex[e].pc = "asked" /\ At(e) = 13
    BY <1>14 DEF Synthesized, Accepted, At, RankOfCall
  <2>2. \A l \in {"note", "apply"} :
          Rank(l) < 13 /\ l \in Labels \ {"asked", "idle", "done", "raised"}
    BY DEF Rank, Labels, Writes
  <2>3. NextRound(e) \/ (\E what : Then(e, "note", what)) \/ (\E what : Then(e, "apply", what))
    BY <1>14 DEF Synthesized
  <2>4. QED
    BY <1>4, <1>6, <2>1, <2>2, <2>3
<1>15. CASE Verified(e)
  <2>1. ex[e].pc = "asked" /\ At(e) = 3
    BY <1>15 DEF Verified, Accepted, At, RankOfCall
  <2>2. Rank("record") < 3 /\ "record" \in Labels \ {"asked", "idle", "done", "raised"}
    BY DEF Rank, Labels, Writes
  <2>3. CASE \E what : Then(e, "record", what)
    BY <1>6, <2>1, <2>2, <2>3
  <2>4. ASSUME NEW k \in Reads \ ex[e].asked,
               ex' = [ex EXCEPT ![e].pc = "read", ![e].act = [kind |-> "tool", what |-> k],
                                ![e].asked = @ \cup {k}]
        PROVE  Turns(e)
    <3>1. ex'[e] = [ex[e] EXCEPT !.pc = "read", !.act = [kind |-> "tool", what |-> k],
                                 !.asked = ex[e].asked \cup {k}]
      BY <1>0, <2>4
    <3>2. ex'[e].pc = "read" /\ ex'[e].round = ex[e].round /\ ex'[e].asked = ex[e].asked \cup {k}
      BY <1>0, <3>1 DEF ExecutorRow
    <3>3. QED
      BY <2>1, <3>2 DEF Turns
  <2>5. QED
    BY <1>15, <2>3, <2>4 DEF Verified
<1>16. CASE Record(e) \/ Apply(e) \/ Relate(e) \/ Counter(e)
  <2>1. \A l \in {"ready", "relate", "gap", "note"} : l \in Labels \ {"asked", "idle", "done", "raised"}
    BY DEF Labels, Writes
  <2>2. CASE Record(e)
    <3>1. ex[e].pc = "record" /\ At(e) = 2 /\ Rank("ready") = 0
      BY <2>2 DEF Record, At, Rank
    <3>2. Goto(e, "ready") => Drops(e)
      BY <1>5, <2>1, <3>1
    <3>3. QED
      BY <1>4, <2>2, <3>1, <3>2 DEF Record
  <2>3. CASE Apply(e)
    <3>1. ex[e].pc = "apply" /\ At(e) = 12 /\ Rank("relate") = 11
      BY <2>3 DEF Apply, At, Rank
    <3>2. QED
      BY <1>5, <2>1, <2>3, <3>1 DEF Apply
  <2>4. CASE Relate(e)
    <3>1. ex[e].pc = "relate" /\ At(e) = 11 /\ Rank("gap") = 0 /\ Rank("note") = 10
      BY <2>4 DEF Relate, At, Rank
    <3>2. Goto(e, "gap") \/ Goto(e, "note")
      BY <2>4 DEF Relate
    <3>3. QED
      BY <1>5, <2>1, <3>1, <3>2
  <2>5. CASE Counter(e)
    BY <1>4, <2>5 DEF Counter
  <2>6. QED
    BY <1>16, <2>2, <2>3, <2>4, <2>5
<1>17. CASE Note(e)
  <2>1. ex[e].pc = "note" /\ At(e) = 10
    BY <1>17 DEF Note, At, Rank
  <2>2. \A l \in {"repeats", "tool", "clarify", "verify"} :
          Rank(l) < 10 /\ l \in Labels \ {"asked", "idle", "done", "raised"}
    BY DEF Rank, Labels, Writes
  <2>3. ex[e].act.kind \in {"tool", "clarify", "package"}
    BY <1>0, <2>1 DEF Fits, ToolActs, ClarifyActs, PackageActs
  <2>4. NextRound(e) \/ \E l \in {"repeats", "tool", "clarify", "verify"} : Goto(e, l)
    BY <1>17, <2>3 DEF Note
  <2>5. QED
    BY <1>4, <1>5, <2>1, <2>2, <2>4
<1>18. CASE OpenStep(e)
  <2>1. /\ (ex[e].pc = "tool" /\ At(e) = 9) \/ (ex[e].pc = "read" /\ At(e) = 6)
        /\ ex[e].pc # "raised"
    BY <1>18 DEF OpenStep, At, Rank
  <2>2. \A l \in {"tooling", "reading", "counter", "verify", "budget"} :
          l \in Labels \ {"asked", "idle", "done", "raised"}
    BY DEF Labels, Writes
  <2>3. /\ Rank("tooling") = 8 /\ Rank("counter") = 7 /\ Rank("reading") = 5
        /\ Rank("verify") = 4 /\ Rank("budget") = 0
    BY DEF Rank
  <2>4. \/ Raise(e)
        \/ ex[e].pc = "tool" /\ (Goto(e, "tooling") \/ Goto(e, "counter"))
        \/ ex[e].pc = "read" /\ (Goto(e, "reading") \/ Goto(e, "verify") \/ Goto(e, "budget"))
    BY <1>18 DEF OpenStep
  <2>5. QED
    BY <1>3, <1>5, <2>1, <2>2, <2>3, <2>4
<1>19. CASE ToolAnswer(e)
  <2>1. /\ (ex[e].pc = "tooling" /\ At(e) = 8) \/ (ex[e].pc = "reading" /\ At(e) = 5)
        /\ ex[e].pc # "raised"
    BY <1>19 DEF ToolAnswer, At, Rank
  <2>2. \A l \in {"counter", "verify"} : l \in Labels \ {"asked", "idle", "done", "raised"}
    BY DEF Labels, Writes
  <2>3. Rank("counter") = 7 /\ Rank("verify") = 4
    BY DEF Rank
  <2>4. \/ Raise(e)
        \/ ex[e].pc = "tooling" /\ Goto(e, "counter")
        \/ ex[e].pc = "reading" /\ Goto(e, "verify")
    BY <1>19 DEF ToolAnswer
  <2>5. QED
    BY <1>3, <1>5, <2>1, <2>2, <2>3, <2>4
<1>20. QED
  BY <1>7, <1>8, <1>9, <1>10, <1>11, <1>12, <1>13, <1>14, <1>15, <1>16, <1>17, <1>18, <1>19 DEF Step

\* Numbers that an executor's steps are counted with.
LEMMA LeftType ==
  ASSUME Typed, IsFiniteSet(Reads), NEW e \in Executors
  PROVE  /\ At(e) \in 0 .. 17
         /\ Cardinality(Reads) \in Nat /\ Cardinality(Reads \ ex[e].asked) \in 0 .. Cardinality(Reads)
         /\ Lap \in Nat /\ ex[e].round \in 0 .. MaxIterations /\ MaxIterations \in Nat
<1>1. At(e) \in 0 .. 17
  <2>1. CASE ex[e].pc = "asked"
    <3>1. calls[ex[e].call] \in CallRow
      BY <2>1 DEF Typed, RowsAreTyped, CallsAreHeld
    <3>2. QED
      BY <2>1, <3>1 DEF At, RankOfCall, CallRow, Roles
  <2>2. CASE ex[e].pc # "asked"
    BY <2>2, RankType DEF At
  <2>3. QED
    BY <2>1, <2>2
<1>2. Cardinality(Reads) \in Nat
  BY FS_CardinalityType
<1>3. Cardinality(Reads \ ex[e].asked) \in 0 .. Cardinality(Reads)
  <2>1. IsFiniteSet(Reads \ ex[e].asked) /\ Cardinality(Reads \ ex[e].asked) <= Cardinality(Reads)
    BY FS_Subset
  <2>2. Cardinality(Reads \ ex[e].asked) \in Nat
    BY <2>1, FS_CardinalityType
  <2>3. QED
    BY <1>2, <2>1, <2>2
<1>4. Lap \in Nat
  BY <1>2 DEF Lap
<1>5. ex[e].round \in 0 .. MaxIterations /\ MaxIterations \in Nat
  BY LimitsAssumption DEF Typed, RowsAreTyped, ExecutorRow
<1>6. QED
  BY <1>1, <1>2, <1>3, <1>4, <1>5

\* The same of the state after a step.
LEMMA LeftTypeNext ==
  ASSUME Typed', IsFiniteSet(Reads), NEW e \in Executors
  PROVE  /\ At(e)' \in 0 .. 17
         /\ Cardinality(Reads) \in Nat /\ Cardinality(Reads \ ex'[e].asked) \in 0 .. Cardinality(Reads)
         /\ Lap \in Nat /\ ex'[e].round \in 0 .. MaxIterations /\ MaxIterations \in Nat
<1>1. At(e)' \in 0 .. 17
  <2>1. CASE ex'[e].pc = "asked"
    <3>1. calls'[ex'[e].call] \in CallRow
      BY <2>1 DEF Typed, RowsAreTyped, CallsAreHeld
    <3>2. QED
      BY <2>1, <3>1 DEF At, RankOfCall, CallRow, Roles
  <2>2. CASE ex'[e].pc # "asked"
    BY <2>2, RankType DEF At
  <2>3. QED
    BY <2>1, <2>2
<1>2. Cardinality(Reads) \in Nat
  BY FS_CardinalityType
<1>3. Cardinality(Reads \ ex'[e].asked) \in 0 .. Cardinality(Reads)
  <2>1. IsFiniteSet(Reads \ ex'[e].asked) /\ Cardinality(Reads \ ex'[e].asked) <= Cardinality(Reads)
    BY FS_Subset
  <2>2. Cardinality(Reads \ ex'[e].asked) \in Nat
    BY <2>1, FS_CardinalityType
  <2>3. QED
    BY <1>2, <2>1, <2>2
<1>4. Lap \in Nat
  BY <1>2 DEF Lap
<1>5. ex'[e].round \in 0 .. MaxIterations /\ MaxIterations \in Nat
  BY LimitsAssumption DEF Typed, RowsAreTyped, ExecutorRow
<1>6. QED
  BY <1>1, <1>2, <1>3, <1>4, <1>5

\* An iteration more is worth less than the places and sources of one.
LEMMA LaterLap ==
  ASSUME NEW m \in Nat, NEW d \in Nat, d < m, NEW card \in Nat, NEW n \in 0 .. card, NEW k \in 0 .. card,
         NEW a \in 0 .. 17, NEW b \in 0 .. 17
  PROVE  2 + (m - (d + 1)) * (18 * (card + 1)) + 18 * k + b < 2 + (m - d) * (18 * (card + 1)) + 18 * n + a
<1>1. PICK l \in Nat : l = 18 * (card + 1)
  OBVIOUS
<1>2. (m - d) * l = (m - (d + 1)) * l + l
  OBVIOUS
<1>3. 18 * k + b < l /\ 18 * n + a >= 0
  BY <1>1
<1>4. PICK x \in Int : x = (m - (d + 1)) * l
  OBVIOUS
<1>5. 2 + x + 18 * k + b < 2 + (x + l) + 18 * n + a
  BY <1>3
<1>6. QED
  BY <1>1, <1>2, <1>4, <1>5

\* No executor has more steps left than fit into its iterations.
LEMMA LeftIsBounded ==
  ASSUME Typed, IsFiniteSet(Reads), NEW e \in Executors
  PROVE  Left(e) \in 0 .. 1 + (MaxIterations + 1) * Lap
<1>1. PICK card \in Nat, n \in Nat, a \in 0 .. 17, m \in Nat, d \in Nat :
        /\ card = Cardinality(Reads) /\ n = Cardinality(Reads \ ex[e].asked) /\ a = At(e)
        /\ m = MaxIterations /\ d = ex[e].round /\ n \in 0 .. card /\ d \in 0 .. m
  <2>1. /\ At(e) \in 0 .. 17 /\ Cardinality(Reads) \in Nat
        /\ Cardinality(Reads \ ex[e].asked) \in 0 .. Cardinality(Reads)
        /\ MaxIterations \in Nat /\ ex[e].round \in 0 .. MaxIterations
    BY LeftType
  <2>2. Cardinality(Reads \ ex[e].asked) \in Nat /\ ex[e].round \in Nat
    BY <2>1
  <2>3. QED
    BY <2>1, <2>2
<1>2. PICK l \in Nat : l = Lap /\ l = 18 * (card + 1)
  BY <1>1 DEF Lap
<1>3. 0 <= (m - d) * l /\ (m - d) * l <= m * l
  <2>1. PICK c \in Nat : c = m - d
    BY <1>1
  <2>2. m * l = c * l + d * l
    BY <2>1
  <2>3. c * l \in Nat /\ d * l \in Nat
    BY <2>1
  <2>4. QED
    BY <2>1, <2>2, <2>3
<1>4. (m + 1) * l = m * l + l /\ m * l \in Nat
  OBVIOUS
<1>5. PICK x \in Int, y \in Nat : x = (m - d) * l /\ y = m * l
  BY <1>4
<1>6. 2 + x + 18 * n + a \in 0 .. 1 + (y + l) /\ 1 \in 0 .. 1 + (y + l) /\ 0 \in 0 .. 1 + (y + l)
  <2>1. 18 * n + a < l
    BY <1>1, <1>2
  <2>2. x >= 0 /\ x <= y /\ 18 * n + a \in Nat
    BY <1>1, <1>3, <1>5
  <2>3. PICK z \in Nat : z = 18 * n + a
    BY <2>2
  <2>4. 2 + x + 18 * n + a = 2 + x + z
    BY <2>3
  <2>5. 2 + x + z \in 0 .. 1 + (y + l)
    BY <2>1, <2>2, <2>3
  <2>6. 1 \in 0 .. 1 + (y + l) /\ 0 \in 0 .. 1 + (y + l)
    OBVIOUS
  <2>7. QED
    BY <2>4, <2>5, <2>6
<1>7. Left(e) \in {0, 1, 2 + x + 18 * n + a}
  BY <1>1, <1>2, <1>5 DEF Left
<1>8. 1 + (MaxIterations + 1) * Lap = 1 + (y + l)
  BY <1>1, <1>2, <1>4, <1>5
<1>9. QED
  BY <1>6, <1>7, <1>8

\* A step of a working executor leaves it fewer steps.
LEMMA StepsRunDown ==
  ASSUME Typed, Typed', IsFiniteSet(Reads), NEW e \in Executors, Working(e), Step(e) \/ Crash(e)
  PROVE  Left(e)' < Left(e)
<1>1. PICK card \in Nat, n \in Nat, a \in 0 .. 17, m \in Nat, d \in Nat :
        /\ card = Cardinality(Reads) /\ n = Cardinality(Reads \ ex[e].asked) /\ a = At(e)
        /\ m = MaxIterations /\ d = ex[e].round /\ n \in 0 .. card /\ d \in 0 .. m
  <2>1. /\ At(e) \in 0 .. 17 /\ Cardinality(Reads) \in Nat
        /\ Cardinality(Reads \ ex[e].asked) \in 0 .. Cardinality(Reads)
        /\ MaxIterations \in Nat /\ ex[e].round \in 0 .. MaxIterations
    BY LeftType
  <2>2. Cardinality(Reads \ ex[e].asked) \in Nat /\ ex[e].round \in Nat
    BY <2>1
  <2>3. QED
    BY <2>1, <2>2
<1>2. PICK k \in 0 .. card, b \in 0 .. 17, r \in 0 .. m :
        k = Cardinality(Reads \ ex'[e].asked) /\ b = At(e)' /\ r = ex'[e].round
  <2>1. /\ At(e)' \in 0 .. 17 /\ Cardinality(Reads \ ex'[e].asked) \in 0 .. Cardinality(Reads)
        /\ ex'[e].round \in 0 .. MaxIterations
    BY LeftTypeNext
  <2>2. QED
    BY <1>1, <2>1
<1>3. PICK l \in Nat : l = Lap /\ l = 18 * (card + 1)
  BY <1>1 DEF Lap
<1>4. PICK x \in Nat, y \in Nat : x = (m - d) * l /\ y = (m - r) * l
  <2>1. PICK u \in Nat, v \in Nat : u = m - d /\ v = m - r
    BY <1>1, <1>2
  <2>2. u * l \in Nat /\ v * l \in Nat
    OBVIOUS
  <2>3. QED
    BY <2>1, <2>2
<1>5. ex[e].pc # "raised" => Left(e) = 2 + x + 18 * n + a
  BY <1>1, <1>3, <1>4 DEF Left, Working
<1>6. ex'[e].pc \notin {"idle", "done", "raised"} => Left(e)' = 2 + y + 18 * k + b
  BY <1>1, <1>2, <1>3, <1>4 DEF Left
<1>7. CASE Stops(e)
  <2>1. ex[e].pc = "raised" => Left(e) = 1 /\ ex'[e].pc = "done"
    BY <1>7 DEF Left, Stops
  <2>2. /\ ex'[e].pc = "done" => Left(e)' = 0
        /\ ex'[e].pc = "raised" => Left(e)' = 1
    BY DEF Left
  <2>3. ex[e].pc # "raised" => Left(e) > 0 /\ Left(e) > 1
    BY <1>5
  <2>4. CASE ex[e].pc = "raised"
    BY <2>1, <2>2, <2>4
  <2>5. CASE ex[e].pc # "raised"
    BY <1>7, <2>2, <2>3, <2>5 DEF Stops
  <2>6. QED
    BY <2>4, <2>5
<1>8. CASE Laps(e)
  <2>1. ex[e].pc # "raised" /\ ex'[e].pc = "loop" /\ d < m /\ r = d + 1
    BY <1>1, <1>2, <1>8 DEF Laps
  <2>2. 2 + (m - (d + 1)) * (18 * (card + 1)) + 18 * k + b < 2 + (m - d) * (18 * (card + 1)) + 18 * n + a
    BY <2>1, LaterLap
  <2>3. 2 + y + 18 * k + b < 2 + x + 18 * n + a
    BY <1>3, <1>4, <2>1, <2>2
  <2>4. QED
    BY <1>5, <1>6, <2>1, <2>3
<1>9. CASE Drops(e)
  <2>1. ex[e].pc # "raised" /\ ex'[e].pc \notin {"idle", "done", "raised"}
    BY <1>9 DEF Drops
  <2>2. r = d /\ k = n /\ b < a
    BY <1>1, <1>2, <1>9 DEF Drops
  <2>3. 2 + y + 18 * k + b < 2 + x + 18 * n + a
    BY <1>4, <2>2
  <2>4. QED
    BY <1>5, <1>6, <2>1, <2>3
<1>10. CASE Turns(e)
  <2>1. ex[e].pc # "raised" /\ ex'[e].pc = "read" /\ r = d
    BY <1>1, <1>2, <1>10 DEF Turns
  <2>2. PICK s \in Reads \ ex[e].asked : ex'[e].asked = ex[e].asked \cup {s}
    BY <1>10 DEF Turns
  <2>3. k = n - 1
    <3>1. Reads \ ex'[e].asked = (Reads \ ex[e].asked) \ {s}
      BY <2>2
    <3>2. IsFiniteSet(Reads \ ex[e].asked)
      BY FS_Subset
    <3>3. Cardinality((Reads \ ex[e].asked) \ {s}) = Cardinality(Reads \ ex[e].asked) - 1
      BY <3>2, FS_RemoveElement
    <3>4. QED
      BY <1>1, <1>2, <3>1, <3>3
  <2>4. 2 + y + 18 * k + b < 2 + x + 18 * n + a
    BY <1>4, <2>1, <2>3
  <2>5. QED
    BY <1>5, <1>6, <2>1, <2>4
<1>11. QED
  BY <1>7, <1>8, <1>9, <1>10, WaysOn

\* The steps of others leave an executor where it is, and its call with the role it asked.
LEMMA OthersWait ==
  ASSUME Typed, NEW e \in Executors, Step(e) \/ Crash(e), NEW f \in Executors, f # e
  PROVE  Left(f)' = Left(f)
<1>1. ex'[f] = ex[f]
  BY ExecutorTypes DEF StepKeepsTypes, Moves
<1>2. ASSUME ex[f].pc = "asked" PROVE calls'[ex[f].call].role = calls[ex[f].call].role
  <2>1. /\ ex[f].call \in DOMAIN calls /\ calls \in Seq(CallRow) /\ DOMAIN calls = 1 .. Len(calls)
        /\ Len(calls) \in Nat
    BY <1>2 DEF Typed, RowsAreTyped, CallsAreHeld
  <2>2. CASE UNCHANGED calls
    BY <2>2
  <2>3. CASE Asks(e)
    <3>1. calls' = Append(calls, [role |-> RoleOf(ex[e].pc), st |-> "running"])
      BY <2>3 DEF Asks
    <3>2. QED
      BY <2>1, <3>1
  <2>4. CASE Settles(e)
    <3>1. PICK st : calls'[ex[e].call] = [role |-> calls[ex[e].call].role, st |-> st]
      BY <2>4 DEF Settles
    <3>2. \A i \in DOMAIN calls \ {ex[e].call} : calls'[i] = calls[i]
      BY <2>4 DEF Settles
    <3>3. QED
      BY <2>1, <3>1, <3>2
  <2>5. CASE DiscardsCalls
    BY <2>1, <2>5 DEF DiscardsCalls
  <2>6. QED
    BY <2>2, <2>3, <2>4, <2>5, CallsChange
<1>3. At(f)' = At(f)
  BY <1>1, <1>2 DEF At
<1>4. Lap' = Lap
  BY DEF Lap
<1>5. QED
  BY <1>1, <1>3 DEF Left

\* How many steps an executor still takes before it stops, whatever the models
\* answer and whatever others do: it has a bound, each step of its own lowers it,
\* and only a new start raises it.
LeftIsBound == \A e \in Executors : Left(e) \in 0 .. 1 + (MaxIterations + 1) * Lap

RunsDown ==
  [][\A e \in Executors :
       /\ Step(e) /\ Working(e) => Left(e)' < Left(e)
       /\ ~Start(e) => Left(e)' <= Left(e)]_vars

\* Between its start and its end an executor takes at most 1 + (MaxIterations + 1) * Lap
\* steps, if there are finitely many sources to read: the safety half of
\* ExecutorsStop (run_until_boundary, advance_investigation).
THEOREM ExecutorsRunDown ==
  ASSUME IsFiniteSet(Reads)
  PROVE  LoopSpec => []LeftIsBound /\ RunsDown
<1>1. LoopInv => Typed
  BY DEF LoopInv, Typed
<1>2. Typed => LeftIsBound
  BY LeftIsBounded DEF LeftIsBound
<1>3. ASSUME Typed, Typed', LeftIsBound', LoopNext, NEW e \in Executors
      PROVE  /\ Step(e) /\ Working(e) => Left(e)' < Left(e)
             /\ ~Start(e) => Left(e)' <= Left(e)
  <2>1. Left(e) \in 0 .. 1 + (MaxIterations + 1) * Lap
    BY <1>3, LeftIsBounded
  <2>2. PICK n \in Int : n = Left(e)
    BY <2>1
  <2>3. ASSUME Step(e) \/ Crash(e), Working(e) PROVE Left(e)' < Left(e)
    BY <1>3, <2>3, StepsRunDown
  <2>4. ASSUME NEW f \in Executors, Step(f) \/ Crash(f), ~Start(e) PROVE Left(e)' <= Left(e)
    <3>1. CASE f # e
      <4>1. Left(e)' = Left(e)
        BY <1>3, <2>4, <3>1, OthersWait
      <4>2. QED
        BY <2>2, <4>1
    <3>2. CASE f = e
      <4>1. Working(e)
        BY <2>4, <3>2 DEF Working, Step, Advance, Lockout, Suspend, MakeReady, Fail, Ask, Error, LateAnswer,
           Planned, Synthesized, Verified, Accepted, Record, Apply, Relate, Note, OpenStep, ToolError,
           ToolAnswer, Counter, FailExecution, Crash, Writes
      <4>2. Left(e)' < Left(e)
        BY <2>3, <2>4, <3>2, <4>1
      <4>3. Left(e)' \in 0 .. 1 + (MaxIterations + 1) * Lap
        BY <1>3 DEF LeftIsBound, Lap
      <4>4. PICK k \in Int : k = Left(e)'
        BY <4>3
      <4>5. QED
        BY <2>2, <4>2, <4>4
    <3>3. QED
      BY <3>1, <3>2
  <2>5. ASSUME Outside PROVE Left(e)' <= Left(e)
    <3>1. UNCHANGED <<ex, calls>>
      BY <2>5 DEF Outside, Continue, Abort, Recover, Burn, EditProcess, Ended, vars
    <3>2. At(e)' = At(e)
      BY <3>1 DEF At
    <3>3. Left(e)' = Left(e)
      BY <3>1, <3>2 DEF Left
    <3>4. QED
      BY <2>2, <3>3
  <2>6. QED
    BY <1>3, <2>3, <2>4, <2>5, StepsOfTheLoop
<1>4. Typed /\ Typed' /\ LeftIsBound' /\ [LoopNext]_vars =>
        [\A e \in Executors :
           /\ Step(e) /\ Working(e) => Left(e)' < Left(e)
           /\ ~Start(e) => Left(e)' <= Left(e)]_vars
  BY <1>3
<1>5. LoopSpec => []Typed
  BY <1>1, LoopInvariant, PTL
<1>6. LoopSpec => []LeftIsBound
  BY <1>2, <1>5, PTL
<1>7. LoopSpec => RunsDown
  BY <1>4, <1>5, <1>6, PTL DEF LoopSpec, RunsDown
<1>8. QED
  BY <1>6, <1>7

==============================================================================
