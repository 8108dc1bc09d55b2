---------------------- MODULE InvestigationExecution ----------------------
(***************************************************************************)
(* Durable background execution of product investigations.                 *)
(*                                                                         *)
(* A run is dispatched by a web request, claimed by one supervisor process *)
(* (run_investigation_worker), executed by one child process, kept alive   *)
(* by a lease the supervisor renews and fenced by a generation number that *)
(* stands for the executor token: the code draws a new token exactly where *)
(* it increments executor_generation.  The database row of the run is the  *)
(* only state the actors share.                                            *)
(*                                                                         *)
(* Time is relative: lease[r] is the number of ticks until                 *)
(* execution_lease_until (negative once it has passed, Expired at the      *)
(* latest and for NULL), age[r] the ticks since started_at.                *)
(***************************************************************************)
EXTENDS Integers, FiniteSets

CONSTANTS
  Runs,            \* investigation runs (each starts at most once)
  Workers,         \* supervisor incarnations: a restart draws a fresh worker_id
  NoWorker,        \* execution_worker_id NULL
  MaxExecutions,   \* MAX_EXECUTIONS
  LeaseTicks,      \* LEASE_SECONDS in ticks
  RuntimeTicks,    \* max_runtime_seconds + HEARTBEAT_SECONDS in ticks
  MaxRenewDelay,   \* bound: ticks between renew_execution's now and its UPDATE
  MaxGeneration,   \* bound: a run at this generation is not continued again
  Once,            \* supervisors started with --once
  Mortal,          \* supervisors the environment may stop or kill
  Faults           \* which failures the environment may cause

FaultKinds == {"child", "supervisor", "spawn", "database", "unfenced",
               "terminal", "actor"}

ASSUME ConstantsAssumption ==
  /\ NoWorker \notin Workers
  /\ MaxExecutions \in Nat \ {0}
  /\ LeaseTicks \in Nat \ {0}
  /\ RuntimeTicks \in Nat
  /\ MaxRenewDelay \in Nat
  /\ MaxGeneration \in Nat
  /\ Once \subseteq Workers
  /\ Mortal \subseteq Workers
  /\ Faults \subseteq FaultKinds

ASSUME FinitenessAssumption == IsFiniteSet(Runs) /\ IsFiniteSet(Workers)

VARIABLES
  status,      \* status, "none" before start_investigation
  gen,         \* executor_generation (and with it executor_token)
  exec,        \* execution_generation: the generation last claimed
  worker,      \* execution_worker_id
  lease,       \* ticks left until execution_lease_until
  requested,   \* rank of execution_requested_at, 0 = NULL
  dispatches,  \* number of dispatches so far, the source of the ranks
  age,         \* ticks since started_at
  calls,       \* each generation's latest model call or tool step, unless it failed
  procs,       \* live executor child processes
  pc,          \* where each supervisor is in its loop
  todo,        \* what is left of the list the supervisor iterates over
  cur,         \* the list element the supervisor is working on
  stale,       \* what it read of that element's run: superseded or not
  ago,         \* ticks since a renewing supervisor read the clock
  stopping,    \* the supervisor has seen SIGINT or SIGTERM
  children     \* the supervisor's dict of child processes

runVars  == <<status, gen, exec, worker, lease, requested, dispatches, calls>>
supVars  == <<pc, todo, cur, stale, ago, stopping, children>>
vars     == <<runVars, age, procs, supVars>>

Active   == {"running", "waiting_human"}
Terminal == {"ready", "aborted", "failed"}
Expired  == -MaxRenewDelay

\* A claimed generation: the arguments every execution function is called with.
Claim == [run : Runs, gen : Nat, worker : Workers]
\* The child process that executes a claim, and how far it is.
Process == [run : Runs, gen : Nat, worker : Workers,
            at : {"boot", "idle", "call", "done"}]
Call == [run : Runs, gen : Nat, st : {"running", "success", "discarded"}]

ClaimOf(p) == [run |-> p.run, gen |-> p.gen, worker |-> p.worker]
Alive(c)   == {p \in procs : ClaimOf(p) = c}
Leased     == {r \in Runs : status[r] = "running" /\ lease[r] > 0}
OpenCall(r, g) == [run |-> r, gen |-> g, st |-> "running"]

Init ==
  /\ status = [r \in Runs |-> "none"]
  /\ gen = [r \in Runs |-> 1]
  /\ exec = [r \in Runs |-> 0]
  /\ worker = [r \in Runs |-> NoWorker]
  /\ lease = [r \in Runs |-> Expired]
  /\ requested = [r \in Runs |-> 0]
  /\ dispatches = 0
  /\ age = [r \in Runs |-> 0]
  /\ calls = {}
  /\ procs = {}
  /\ pc = [w \in Workers |-> "off"]
  /\ todo = [w \in Workers |-> {}]
  /\ cur = [w \in Workers |-> {}]
  /\ stale = [w \in Workers |-> FALSE]
  /\ ago = [w \in Workers |-> 0]
  /\ stopping = [w \in Workers |-> FALSE]
  /\ children = [w \in Workers |-> {}]

---------------------------------------------------------------------------
(* Web requests: start, continue and abort.                                *)

\* Faulty variant: the previous worker_id survives a re-dispatch.
DispatchKeepsWorker(r, g, reused) ==
  IF exec[r] = g \/ (reused /\ requested[r] # 0)
  THEN UNCHANGED <<requested, dispatches, worker, lease>>
  ELSE /\ dispatches' = dispatches + 1
       /\ requested' = [requested EXCEPT ![r] = dispatches + 1]
       /\ lease' = [lease EXCEPT ![r] = Expired]
       /\ UNCHANGED worker

\* request_execution on a run whose state after the enclosing transaction's
\* start or continue is running with generation g.
Dispatch(r, g, reused) ==
  IF exec[r] = g \/ (reused /\ requested[r] # 0)
  THEN UNCHANGED <<requested, dispatches, worker, lease>>
  ELSE /\ dispatches' = dispatches + 1
       /\ requested' = [requested EXCEPT ![r] = dispatches + 1]
       /\ worker' = [worker EXCEPT ![r] = NoWorker]
       /\ lease' = [lease EXCEPT ![r] = Expired]

\* start_investigation and request_execution in one transaction.
Start(r) ==
  /\ status[r] = "none"
  /\ status' = [status EXCEPT ![r] = "running"]
  /\ Dispatch(r, gen[r], FALSE)
  /\ UNCHANGED <<gen, exec, age, calls, procs, supVars>>

\* The same start posted again: a reused handle, then request_execution.
Resubmit(r) ==
  /\ status[r] # "none"
  /\ IF status[r] = "running"
     THEN Dispatch(r, gen[r], TRUE)
     ELSE UNCHANGED <<requested, dispatches, worker, lease>>
  /\ UNCHANGED <<status, gen, exec, age, calls, procs, supVars>>

\* Faulty variant: a run that is still executing is continued as well.
ContinuableWhileActive(r) == status[r] \in Active /\ gen[r] < MaxGeneration
Continuable(r) == status[r] = "waiting_human" /\ gen[r] < MaxGeneration

\* Faulty variant: continuing keeps the generation of the paused executor.
SameGeneration(r) == gen[r]
NextGeneration(r) == gen[r] + 1

\* continue_with_human_input and request_execution in one transaction.
Continue(r) ==
  /\ Continuable(r)
  /\ status' = [status EXCEPT ![r] = "running"]
  /\ gen' = [gen EXCEPT ![r] = NextGeneration(r)]
  /\ Dispatch(r, NextGeneration(r), FALSE)
  /\ UNCHANGED <<exec, age, calls, procs, supVars>>

\* abort_investigation: calls of the fenced generation are left as they are.
Abort(r) ==
  /\ status[r] \in Active
  /\ status' = [status EXCEPT ![r] = "aborted"]
  /\ gen' = [gen EXCEPT ![r] = @ + 1]
  /\ UNCHANGED <<exec, worker, lease, requested, dispatches, age, calls,
                 procs, supVars>>

---------------------------------------------------------------------------
(* fail_execution: the cleanup every failure path goes through.            *)

\* Faulty variant: the lease is not looked at again under the lock.
MayFailUnchecked(c, onlyIfExpired) ==
  /\ status[c.run] = "running"
  /\ gen[c.run] = c.gen
  /\ exec[c.run] = c.gen
  /\ worker[c.run] = c.worker

\* Faulty variant: the claim alone is compared, not the state of the run.
MayFailByClaim(c, onlyIfExpired) ==
  /\ exec[c.run] = c.gen
  /\ worker[c.run] = c.worker
  /\ onlyIfExpired => lease[c.run] <= 0

\* The row still belongs to the claim (and, for the reaper, is expired).
MayFail(c, onlyIfExpired) ==
  /\ status[c.run] = "running"
  /\ gen[c.run] = c.gen
  /\ exec[c.run] = c.gen
  /\ worker[c.run] = c.worker
  /\ onlyIfExpired => lease[c.run] <= 0

\* Faulty variant: the calls of the failed generation are forgotten.
KeepOpen(r, g) == calls

\* The running calls of the failed generation become discarded.
DiscardOpen(r, g) ==
  IF OpenCall(r, g) \in calls
  THEN (calls \ {OpenCall(r, g)}) \union {[run |-> r, gen |-> g, st |-> "discarded"]}
  ELSE calls

FailExecution(c, onlyIfExpired) ==
  IF MayFail(c, onlyIfExpired)
  THEN /\ status' = [status EXCEPT ![c.run] = "failed"]
       /\ gen' = [gen EXCEPT ![c.run] = @ + 1]
       /\ lease' = [lease EXCEPT ![c.run] = Expired]
       /\ calls' = DiscardOpen(c.run, c.gen)
       /\ UNCHANGED <<exec, worker, requested, dispatches>>
  ELSE UNCHANGED runVars

---------------------------------------------------------------------------
(* The supervisor loop: reap, poll, heartbeat, claim.                      *)

Goto(w, label) == pc' = [pc EXCEPT ![w] = label]

Launch(w) ==
  /\ pc[w] = "off"
  /\ Goto(w, "reap")
  /\ UNCHANGED <<runVars, age, procs, todo, cur, stale, ago, stopping, children>>

\* Claims whose lease has run out, as reap_executions selects them.
Orphans == {[run |-> r, gen |-> exec[r], worker |-> worker[r]] :
              r \in {q \in Runs : /\ status[q] = "running"
                                  /\ worker[q] # NoWorker
                                  /\ lease[q] <= 0
                                  /\ exec[q] = gen[q]}}

\* reap_executions reads the expired claims ...
ReapRead(w) ==
  /\ pc[w] = "reap"
  /\ todo' = [todo EXCEPT ![w] = Orphans]
  /\ Goto(w, "reaping")
  /\ UNCHANGED <<runVars, age, procs, cur, stale, ago, stopping, children>>

\* ... and fails each in a later transaction, if it is still expired then.
ReapAct(w) ==
  /\ pc[w] = "reaping"
  /\ \E c \in todo[w] :
       /\ FailExecution(c, TRUE)
       /\ todo' = [todo EXCEPT ![w] = @ \ {c}]
  /\ UNCHANGED <<age, procs, pc, cur, stale, ago, stopping, children>>

ReapEnd(w) ==
  /\ pc[w] = "reaping"
  /\ todo[w] = {}
  /\ Goto(w, "poll")
  /\ todo' = [todo EXCEPT ![w] = children[w]]
  /\ UNCHANGED <<runVars, age, procs, cur, stale, ago, stopping, children>>

\* The run of a child is read before the process is polled.
PollRead(w) ==
  /\ pc[w] = "poll"
  /\ \E c \in todo[w] :
       /\ todo' = [todo EXCEPT ![w] = @ \ {c}]
       /\ cur' = [cur EXCEPT ![w] = {c}]
       /\ stale' = [stale EXCEPT ![w] =
            status[c.run] # "running" \/ gen[c.run] # c.gen]
  /\ Goto(w, "polled")
  /\ UNCHANGED <<runVars, age, procs, ago, stopping, children>>

\* Faulty variant: the supervisor relies on the executor's own time budget.
SettledWithoutLimit(w, c) == Alive(c) = {} \/ stale[w]
Settled(w, c) == Alive(c) = {} \/ stale[w] \/ age[c.run] > RuntimeTicks

\* An ended, superseded or overdue child is stopped, fenced and forgotten.
PollAct(w) ==
  /\ pc[w] = "polled"
  /\ \E c \in cur[w] :
       IF Settled(w, c)
       THEN /\ procs' = procs \ Alive(c)
            /\ IF stale[w] THEN UNCHANGED runVars ELSE FailExecution(c, FALSE)
            /\ children' = [children EXCEPT ![w] = @ \ {c}]
       ELSE UNCHANGED <<runVars, procs, children>>
  /\ cur' = [cur EXCEPT ![w] = {}]
  /\ stale' = [stale EXCEPT ![w] = FALSE]
  /\ Goto(w, "poll")
  /\ UNCHANGED <<age, todo, ago, stopping>>

\* The heartbeat is due (every HEARTBEAT_SECONDS) or it is not.
PollEnd(w) ==
  /\ pc[w] = "poll"
  /\ todo[w] = {}
  /\ \/ /\ Goto(w, "beat")
        /\ todo' = [todo EXCEPT ![w] = children[w]]
     \/ /\ Goto(w, "claim")
        /\ UNCHANGED todo
  /\ UNCHANGED <<runVars, age, procs, cur, stale, ago, stopping, children>>

\* renew_execution reads the clock ...
RenewRead(w) ==
  /\ pc[w] = "beat"
  /\ \E c \in todo[w] :
       /\ todo' = [todo EXCEPT ![w] = @ \ {c}]
       /\ cur' = [cur EXCEPT ![w] = {c}]
  /\ ago' = [ago EXCEPT ![w] = 0]
  /\ Goto(w, "renewing")
  /\ UNCHANGED <<runVars, age, procs, stale, stopping, children>>

RenewedLease(w, r) == LeaseTicks - ago[w]

\* ... and updates the row later, judging and extending the lease by that
\* reading.  A supervisor that has lost its claim terminates the child.
RenewWrite(w) ==
  /\ pc[w] = "renewing"
  /\ \E c \in cur[w] :
       IF MayFail(c, FALSE) /\ lease[c.run] + ago[w] > 0
       THEN /\ lease' = [lease EXCEPT ![c.run] = RenewedLease(w, c.run)]
            /\ UNCHANGED procs
       ELSE /\ procs' = procs \ Alive(c)
            /\ UNCHANGED lease
  /\ cur' = [cur EXCEPT ![w] = {}]
  /\ ago' = [ago EXCEPT ![w] = 0]
  /\ Goto(w, "beat")
  /\ UNCHANGED <<status, gen, exec, worker, requested, dispatches, calls, age,
                 todo, stale, stopping, children>>

BeatEnd(w) ==
  /\ pc[w] = "beat"
  /\ todo[w] = {}
  /\ Goto(w, "claim")
  /\ UNCHANGED <<runVars, age, procs, todo, cur, stale, ago, stopping, children>>

\* Faulty variant: a run whose lease has run out is offered again.
ClaimableAgain == {r \in Runs : /\ status[r] = "running"
                                /\ requested[r] # 0
                                /\ \/ exec[r] # gen[r] /\ worker[r] = NoWorker
                                   \/ lease[r] <= 0}
Claimable == {r \in Runs : /\ status[r] = "running"
                           /\ requested[r] # 0
                           /\ exec[r] # gen[r]
                           /\ worker[r] = NoWorker}

\* Faulty variant: every supervisor counts its own leases.
OwnPoolFree(w) == Cardinality({r \in Leased : worker[r] = w}) < MaxExecutions
PoolFree(w) == Cardinality(Leased) < MaxExecutions

WantsClaim(w) == ~stopping[w] /\ Cardinality(children[w]) < MaxExecutions
MayClaim(w, r) ==
  /\ WantsClaim(w)
  /\ PoolFree(w)
  /\ r \in Claimable
  /\ \A q \in Claimable : requested[r] <= requested[q]

\* claim_execution, serialised by the advisory lock.
ClaimRun(w) ==
  /\ pc[w] = "claim"
  /\ \E r \in Runs :
       /\ MayClaim(w, r)
       /\ exec' = [exec EXCEPT ![r] = gen[r]]
       /\ worker' = [worker EXCEPT ![r] = w]
       /\ lease' = [lease EXCEPT ![r] = LeaseTicks]
       /\ cur' = [cur EXCEPT ![w] = {[run |-> r, gen |-> gen[r], worker |-> w]}]
  /\ Goto(w, "spawn")
  /\ UNCHANGED <<status, gen, requested, dispatches, calls, age, procs, todo,
                 stale, ago, stopping, children>>

\* Faulty variant: the entry of an earlier process of the run is kept.
FirstChildKept(w, c) ==
  IF \E d \in children[w] : d.run = c.run
  THEN children[w] ELSE children[w] \union {c}

\* The dict keeps one process per run, a later one replaces it.
WithChild(w, c) == {d \in children[w] : d.run # c.run} \union {c}

SpawnOk(w) ==
  /\ pc[w] = "spawn"
  /\ \E c \in cur[w] :
       /\ procs' = procs \union
            {[run |-> c.run, gen |-> c.gen, worker |-> w, at |-> "boot"]}
       /\ children' = [children EXCEPT ![w] = WithChild(w, c)]
  /\ cur' = [cur EXCEPT ![w] = {}]
  /\ Goto(w, "claim")
  /\ UNCHANGED <<runVars, age, todo, stale, ago, stopping>>

SpawnFail(w) ==
  /\ pc[w] = "spawn"
  /\ "spawn" \in Faults
  /\ \E c \in cur[w] : FailExecution(c, FALSE)
  /\ cur' = [cur EXCEPT ![w] = {}]
  /\ Goto(w, "claim")
  /\ UNCHANGED <<age, procs, todo, stale, ago, stopping, children>>

\* Faulty variant: a stop signal does not wait for the children.
LoopDoneAtOnce(w) == w \in Once \/ stopping[w]
LoopDone(w) == w \in Once \/ (stopping[w] /\ children[w] = {})

\* Nothing (more) to claim: leave the loop or sleep and go round again.
ClaimEnd(w) ==
  /\ pc[w] = "claim"
  /\ \A r \in Runs : ~MayClaim(w, r)
  /\ IF LoopDone(w)
     THEN /\ Goto(w, "exit")
          /\ todo' = [todo EXCEPT ![w] = children[w]]
     ELSE /\ Goto(w, "reap")
          /\ UNCHANGED todo
  /\ UNCHANGED <<runVars, age, procs, cur, stale, ago, stopping, children>>

\* Faulty variant: only claims whose lease has run out are fenced.
FenceExpired(c) == FailExecution(c, TRUE)
Fence(c) == FailExecution(c, FALSE)

\* The finally clause fences and stops what is still in the dict; a fence that
\* raises is only logged.
ExitOne(w) ==
  /\ pc[w] = "exit"
  /\ \E c \in todo[w] :
       /\ Fence(c) \/ ("unfenced" \in Faults /\ UNCHANGED runVars)
       /\ procs' = procs \ Alive(c)
       /\ todo' = [todo EXCEPT ![w] = @ \ {c}]
       /\ children' = [children EXCEPT ![w] = @ \ {c}]
  /\ UNCHANGED <<age, pc, cur, stale, ago, stopping>>

ExitEnd(w) ==
  /\ pc[w] = "exit"
  /\ todo[w] = {}
  /\ Goto(w, "gone")
  /\ UNCHANGED <<runVars, age, procs, todo, cur, stale, ago, stopping, children>>

---------------------------------------------------------------------------
(* The executor child: execute_run and, abstracted to its transactions,    *)
(* run_until_boundary.                                                     *)

Owns(p)    == gen[p.run] = p.gen /\ status[p.run] \in Active
Current(p) == gen[p.run] = p.gen /\ status[p.run] = "running"
Others(p)  == {k \in calls : k.run # p.run \/ k.gen # p.gen}
Record(p, st) == Others(p) \union {[run |-> p.run, gen |-> p.gen, st |-> st]}
Becomes(p, at) == procs' = (procs \ {p}) \union {[p EXCEPT !.at = at]}

\* execute_run re-checks the claim it was spawned for, then its actor.
Boot(p) ==
  /\ p.at = "boot"
  /\ \/ /\ MayFail(ClaimOf(p), FALSE) /\ lease[p.run] > 0
        /\ Becomes(p, "idle")
        /\ UNCHANGED runVars
     \/ /\ ~(MayFail(ClaimOf(p), FALSE) /\ lease[p.run] > 0)
        /\ Becomes(p, "done")
        /\ UNCHANGED runVars
     \/ /\ MayFail(ClaimOf(p), FALSE) /\ lease[p.run] > 0
        /\ "actor" \in Faults
        /\ Becomes(p, "done")
        /\ FailExecution(ClaimOf(p), FALSE)
  /\ UNCHANGED <<age, supVars>>

\* Reserve a model call or tool step before the work outside a transaction.
Reserve(p) ==
  /\ p.at = "idle"
  /\ Current(p)
  /\ calls' = Record(p, "running")
  /\ Becomes(p, "call")
  /\ UNCHANGED <<status, gen, exec, worker, lease, requested, dispatches, age,
                 supVars>>

\* A result is stored if the executor is still current, discarded if not; a
\* failure closes the record, except that the failure of a tool step of a
\* superseded executor leaves it running.  The loop goes on after a failure.
Answer(p) ==
  /\ p.at = "call"
  /\ \/ /\ Current(p)
        /\ calls' = Record(p, "success")
        /\ Becomes(p, "idle")
     \/ /\ ~Current(p)
        /\ calls' = Record(p, "discarded")
        /\ Becomes(p, "done")
     \/ /\ OpenCall(p.run, p.gen) \in calls
        /\ calls' = Others(p)
        /\ Becomes(p, "idle")
     \/ /\ gen[p.run] # p.gen
        /\ Becomes(p, "idle")
        /\ UNCHANGED calls
  /\ UNCHANGED <<status, gen, exec, worker, lease, requested, dispatches, age,
                 supVars>>

\* _set_waiting_human keeps the generation: continuing will advance it.
Pause(p) ==
  /\ p.at = "idle"
  /\ Owns(p)
  /\ status' = [status EXCEPT ![p.run] = "waiting_human"]
  /\ Becomes(p, "done")
  /\ UNCHANGED <<gen, exec, worker, lease, requested, dispatches, calls, age,
                 supVars>>

\* _set_ready and the executor's own failure transitions.
Conclude(p) ==
  /\ p.at = "idle"
  /\ Owns(p)
  /\ \E s \in {"ready", "failed"} : status' = [status EXCEPT ![p.run] = s]
  /\ gen' = [gen EXCEPT ![p.run] = @ + 1]
  /\ Becomes(p, "done")
  /\ UNCHANGED <<exec, worker, lease, requested, dispatches, calls, age,
                 supVars>>

\* Any exception, stale_executor included, ends in fail_execution.
Error(p) ==
  /\ p.at \in {"idle", "call"}
  /\ Becomes(p, "done")
  /\ FailExecution(ClaimOf(p), FALSE)
  /\ UNCHANGED <<age, supVars>>

\* The operating system process ends.
Quit(p) ==
  /\ p.at = "done"
  /\ procs' = procs \ {p}
  /\ UNCHANGED <<runVars, age, supVars>>

---------------------------------------------------------------------------
(* The environment: time, signals and crashes.                             *)

Tick ==
  /\ \A w \in Workers : pc[w] = "renewing" => ago[w] < MaxRenewDelay
  /\ lease' = [r \in Runs |-> IF lease[r] > Expired THEN lease[r] - 1 ELSE Expired]
  /\ age' = [r \in Runs |-> IF status[r] \in Active /\ age[r] <= RuntimeTicks
                            THEN age[r] + 1 ELSE age[r]]
  /\ ago' = [w \in Workers |-> IF pc[w] = "renewing" THEN ago[w] + 1 ELSE ago[w]]
  /\ UNCHANGED <<status, gen, exec, worker, requested, dispatches, calls, procs,
                 pc, todo, cur, stale, stopping, children>>

Looping(w) == pc[w] \notin {"off", "exit", "gone", "dead"}

\* SIGTERM, or SIGINT sent to the supervisor alone.
StopSignal(w) ==
  /\ w \in Mortal
  /\ Looping(w)
  /\ ~stopping[w]
  /\ stopping' = [stopping EXCEPT ![w] = TRUE]
  /\ UNCHANGED <<runVars, age, procs, pc, todo, cur, stale, ago, children>>

\* Ctrl-C in a terminal reaches the whole foreground process group, and a
\* child does not handle SIGINT: KeyboardInterrupt passes "except Exception".
TerminalInterrupt(w) ==
  /\ "terminal" \in Faults
  /\ w \in Mortal
  /\ Looping(w)
  /\ ~stopping[w]
  /\ stopping' = [stopping EXCEPT ![w] = TRUE]
  /\ procs' = {p \in procs : p.worker # w}
  /\ UNCHANGED <<runVars, age, pc, todo, cur, stale, ago, children>>

\* An exception in the loop: the finally clause runs.  One raised between the
\* claim and the dict leaves a claim the clause does not know.
LoopError(w) ==
  /\ "database" \in Faults
  /\ w \in Mortal
  /\ Looping(w)
  /\ pc[w] = "spawn" => "unfenced" \in Faults
  /\ Goto(w, "exit")
  /\ todo' = [todo EXCEPT ![w] = children[w]]
  /\ cur' = [cur EXCEPT ![w] = {}]
  /\ stale' = [stale EXCEPT ![w] = FALSE]
  /\ ago' = [ago EXCEPT ![w] = 0]
  /\ UNCHANGED <<runVars, age, procs, stopping, children>>

\* SIGKILL or power loss: nothing is fenced, the children live on.
Crash(w) ==
  /\ "supervisor" \in Faults
  /\ w \in Mortal
  /\ Looping(w) \/ pc[w] = "exit"
  /\ Goto(w, "dead")
  /\ todo' = [todo EXCEPT ![w] = {}]
  /\ cur' = [cur EXCEPT ![w] = {}]
  /\ stale' = [stale EXCEPT ![w] = FALSE]
  /\ ago' = [ago EXCEPT ![w] = 0]
  /\ children' = [children EXCEPT ![w] = {}]
  /\ UNCHANGED <<runVars, age, procs, stopping>>

ChildCrash(p) ==
  /\ "child" \in Faults
  /\ procs' = procs \ {p}
  /\ UNCHANGED <<runVars, age, supVars>>

---------------------------------------------------------------------------

Request(r) == Start(r) \/ Resubmit(r) \/ Continue(r) \/ Abort(r)

Supervise(w) ==
  \/ Launch(w)
  \/ ReapRead(w) \/ ReapAct(w) \/ ReapEnd(w)
  \/ PollRead(w) \/ PollAct(w) \/ PollEnd(w)
  \/ RenewRead(w) \/ RenewWrite(w) \/ BeatEnd(w)
  \/ ClaimRun(w) \/ SpawnOk(w) \/ SpawnFail(w) \/ ClaimEnd(w)
  \/ ExitOne(w) \/ ExitEnd(w)

Execute(p) ==
  \/ Boot(p) \/ Reserve(p) \/ Answer(p)
  \/ Pause(p) \/ Conclude(p) \/ Error(p) \/ Quit(p)

Environment ==
  \/ Tick
  \/ \E w \in Workers :
       StopSignal(w) \/ TerminalInterrupt(w) \/ LoopError(w) \/ Crash(w)
  \/ \E p \in procs : ChildCrash(p)

Next ==
  \/ \E r \in Runs : Request(r)
  \/ \E w \in Workers : Supervise(w)
  \/ \E p \in procs : Execute(p)
  \/ Environment

Spec == Init /\ [][Next]_vars

\* A supervisor that is up keeps going round its loop, the service manager
\* starts it (restart: unless-stopped) and time passes.  Nothing is assumed of
\* the executors: a provider call may hang.
Fairness == SF_vars(Tick) /\ \A w \in Workers : WF_vars(Supervise(w))

FairSpec == Spec /\ Fairness

---------------------------------------------------------------------------
(* Safety.                                                                 *)

\* Every variable has its type.
TypeOK ==
  /\ status \in [Runs -> Active \union Terminal \union {"none"}]
  /\ gen \in [Runs -> Nat]
  /\ exec \in [Runs -> Nat]
  /\ worker \in [Runs -> Workers \union {NoWorker}]
  /\ lease \in [Runs -> Expired .. LeaseTicks]
  /\ requested \in [Runs -> Nat]
  /\ dispatches \in Nat
  /\ age \in [Runs -> Nat]
  /\ calls \subseteq Call
  /\ procs \subseteq Process
  /\ pc \in [Workers -> {"off", "reap", "reaping", "poll", "polled", "beat",
                         "renewing", "claim", "spawn", "exit", "gone", "dead"}]
  /\ todo \in [Workers -> SUBSET Claim]
  /\ cur \in [Workers -> SUBSET Claim]
  /\ stale \in [Workers -> BOOLEAN]
  /\ ago \in [Workers -> 0 .. MaxRenewDelay]
  /\ stopping \in [Workers -> BOOLEAN]
  /\ children \in [Workers -> SUBSET Claim]

\* A generation of a run is executed by at most one process, whatever
\* supervisors, crashes and continuations interleave (claim_execution,
\* execute_run).
SingleExecutor ==
  \A p, q \in procs : p.run = q.run /\ p.gen = q.gen => p = q

\* The stored call or step that is still running belongs to the current
\* executor of a running run; only abort_investigation leaves one behind.
OpenCallsAreOwned ==
  \A k \in calls : k.st = "running" =>
    \/ status[k.run] = "running" /\ gen[k.run] = k.gen
    \/ status[k.run] = "aborted"

\* An interrupted provider call is not repeated by a later execution: its run
\* has ended and no later generation has called anything (SETUP.md 339-340).
UncertainCallsAreNotRepeated ==
  \A k \in calls : k.st = "discarded" =>
    /\ status[k.run] \in Terminal
    /\ \A j \in calls : j.run = k.run => j.gen <= k.gen

\* At most MAX_EXECUTIONS runs hold a live lease at any time (the capacity
\* claim_execution serialises with its advisory lock; SETUP.md 335-336).
CapacityRespected == Cardinality(Leased) <= MaxExecutions

\* While a supervisor loops, the executor of a claim it still holds is in its
\* dict: it is polled, kept alive and stopped with it.
ExecutorsAreWatched ==
  \A p \in procs :
    MayFail(ClaimOf(p), FALSE) /\ Looping(p.worker)
      => ClaimOf(p) \in children[p.worker]

\* A supervisor that has left through its finally clause owns no running
\* generation any more, unless a second database failure kept it from fencing
\* (run_investigation_worker.py 148).
ExitFencesClaims ==
  \A w \in Workers, r \in Runs :
    pc[w] = "gone" /\ worker[r] = w => ~(status[r] = "running" /\ exec[r] = gen[r])

\* Supervisors between a claim and the spawn of its process.
Unspawned == {w \in Workers : pc[w] = "spawn"}

\* A claim or process of a generation that has not been claimed yet cannot
\* exist, and a run is at most one generation ahead of its last claim.
GenerationsAdvance ==
  /\ \A r \in Runs :
       /\ exec[r] <= gen[r]
       /\ status[r] = "none" => exec[r] = 0 /\ gen[r] = 1
       /\ status[r] = "running" => gen[r] <= exec[r] + 1
       /\ status[r] = "waiting_human" => gen[r] = exec[r]
  /\ \A p \in procs : p.gen <= exec[p.run]
  /\ \A k \in calls : k.gen <= exec[k.run]
  /\ \A w \in Unspawned : \A c \in cur[w] : c.gen <= exec[c.run]

\* The generation last claimed is the current one of a running run or that of
\* a run that has ended since.
Latest(r, g) ==
  exec[r] = g /\ (status[r] \in Terminal \/ (status[r] = "running" /\ gen[r] = g))

\* A claim that waits for its process is the only trace of its generation.
ClaimIsFresh ==
  \A w \in Unspawned : \A c \in cur[w] :
    /\ \A p \in procs : ~(p.run = c.run /\ p.gen = c.gen)
    /\ \A v \in Unspawned : \A d \in cur[v] :
         d.run = c.run /\ d.gen = c.gen => v = w
    /\ OpenCall(c.run, c.gen) \notin calls
    /\ Latest(c.run, c.gen)

\* An executor that has not left its loop belongs to the generation last
\* claimed, and the current one has no call open while it is between two calls.
ExecutorStateAgrees ==
  \A p \in procs :
    /\ p.at # "done" => Latest(p.run, p.gen)
    /\ p.at \in {"boot", "idle"} /\ p.gen = gen[p.run]
         => OpenCall(p.run, p.gen) \notin calls

\* A discarded call is one of the last execution of a run that has ended.
DiscardedCallsAreLast ==
  \A k \in calls : k.st = "discarded" =>
    exec[k.run] = k.gen /\ status[k.run] \in Terminal

\* The inductive invariant the proofs rest on: continuing, claiming, spawning
\* and executing keep the generations of runs, claims, processes and calls in
\* step (claim_execution, continue_with_human_input, assert_executor).
IInv ==
  /\ GenerationsAdvance
  /\ ClaimIsFresh
  /\ ExecutorStateAgrees
  /\ DiscardedCallsAreLast
  /\ SingleExecutor
  /\ OpenCallsAreOwned

---------------------------------------------------------------------------
(* What no step may do.                                                    *)

Succeeded(r) == {k \in calls : k.run = r /\ k.st = "success"}

\* A finished run is never reopened, re-fenced or given a late result.
FinishedStaysFinished ==
  [][\A r \in Runs : status[r] \in Terminal =>
       /\ status'[r] = status[r]
       /\ gen'[r] = gen[r]
       /\ exec'[r] = exec[r]
       /\ Succeeded(r)' \subseteq Succeeded(r)]_vars

\* While its supervisor loops, its lease is live and its runtime is not used
\* up, a working executor's run fails by the executor's own hand only: neither
\* a stale reaper nor another supervisor fails it.
HealthyExecutorIsNotFailed ==
  [][\A p \in procs :
       /\ p.at \in {"idle", "call"}
       /\ MayFail(ClaimOf(p), FALSE)
       /\ lease[p.run] > 0
       /\ age[p.run] <= RuntimeTicks
       /\ Looping(p.worker)
       /\ status'[p.run] = "failed"
       => [p EXCEPT !.at = "done"] \in procs']_vars

\* After a normal stop signal a claimed run in its time still ends at a
\* boundary its executor reaches, not because the executor is gone
\* (SETUP.md 337-338).
StopReachesBoundary ==
  [][\A r \in Runs :
       /\ status[r] = "running" /\ exec[r] = gen[r]
       /\ worker[r] \in Workers /\ stopping[worker[r]]
       /\ lease[r] > 0
       /\ age[r] <= RuntimeTicks
       /\ status'[r] = "failed"
       => \E p \in procs : /\ p.run = r /\ p.gen = gen[r]
                           /\ [p EXCEPT !.at = "done"] \in procs']_vars

---------------------------------------------------------------------------
(* What must happen, as long as one supervisor stays up.                   *)

\* A dispatched generation is claimed, or the run ends before.
DispatchIsServed ==
  \A r \in Runs : (status[r] = "running" /\ exec[r] # gen[r])
                    ~> (status[r] # "running" \/ exec[r] = gen[r])

\* A claimed run does not stay running: its executor reaches a boundary, or
\* its supervisor stops it, or the reaper of another one fails it.
ClaimEnds ==
  \A r \in Runs : (status[r] = "running" /\ exec[r] = gen[r])
                    ~> (status[r] # "running")

\* A supervisor told to stop does stop.
StopDrains == \A w \in Workers : stopping[w] ~> (pc[w] \in {"gone", "dead"})

---------------------------------------------------------------------------
(* The contract this implements.                                           *)

Phase(r) ==
  CASE status[r] = "none" -> "new"
    [] status[r] = "running" /\ exec[r] = gen[r] -> "executing"
    [] status[r] = "running" /\ exec[r] # gen[r] -> "queued"
    [] status[r] = "waiting_human" -> "paused"
    [] OTHER -> status[r]

Contract == INSTANCE DispatchContract
  WITH phase <- [r \in Runs |-> Phase(r)], round <- exec

\* Every behaviour of the runtime is one of the contract: a run is executed at
\* most once per start or human answer, and an execution that breaks off ends it.
ImplementsContract == Contract!Spec

============================================================================
