------------------- MODULE InvestigationExecutionProofs -------------------
(***************************************************************************)
(* Theorems about InvestigationExecution for any number of runs, workers   *)
(* and generations, any lease, runtime and pool size and any set of        *)
(* failures.                                                               *)
(***************************************************************************)
EXTENDS InvestigationExecution, FiniteSetTheorems, TLAPS

---------------------------------------------------------------------------
(* Types.  The variables fall into the columns of a run's row, the         *)
(* processes, and what the supervisors keep.                               *)

RowTypes ==
  /\ status \in [Runs -> Active \union Terminal \union {"none"}]
  /\ gen \in [Runs -> Nat]
  /\ exec \in [Runs -> Nat]
  /\ worker \in [Runs -> Workers \union {NoWorker}]
  /\ lease \in [Runs -> Expired .. LeaseTicks]
  /\ requested \in [Runs -> Nat]
  /\ dispatches \in Nat
  /\ calls \subseteq Call

SupervisorTypes ==
  /\ pc \in [Workers -> {"off", "reap", "reaping", "poll", "polled", "beat",
                         "renewing", "claim", "spawn", "exit", "gone", "dead"}]
  /\ todo \in [Workers -> SUBSET Claim]
  /\ cur \in [Workers -> SUBSET Claim]
  /\ stale \in [Workers -> BOOLEAN]
  /\ ago \in [Workers -> 0 .. MaxRenewDelay]
  /\ stopping \in [Workers -> BOOLEAN]
  /\ children \in [Workers -> SUBSET Claim]

ProcessTypes == age \in [Runs -> Nat] /\ procs \subseteq Process

\* An expired lease is a lease value.
LEMMA ExpiredIsLease ==
  Expired \in Expired .. LeaseTicks /\ LeaseTicks \in Expired .. LeaseTicks
BY ConstantsAssumption DEF Expired

\* request_execution keeps the columns it writes well-typed.
LEMMA DispatchTypes ==
  ASSUME RowTypes, NEW r \in Runs, NEW g \in Nat, NEW reused \in BOOLEAN,
         Dispatch(r, g, reused)
  PROVE  /\ worker' \in [Runs -> Workers \union {NoWorker}]
         /\ lease' \in [Runs -> Expired .. LeaseTicks]
         /\ requested' \in [Runs -> Nat]
         /\ dispatches' \in Nat
BY ExpiredIsLease DEF RowTypes, Dispatch

\* fail_execution keeps the row and the calls well-typed.
LEMMA FailTypes ==
  ASSUME RowTypes, NEW c \in Claim, NEW only \in BOOLEAN, FailExecution(c, only)
  PROVE  RowTypes'
<1>1. CASE UNCHANGED runVars
  BY <1>1 DEF RowTypes, runVars
<1>2. CASE MayFail(c, only)
  <2>1. c.run \in Runs /\ c.gen \in Nat
    BY DEF Claim
  <2>2. [run |-> c.run, gen |-> c.gen, st |-> "discarded"] \in Call
    BY <2>1 DEF Call
  <2>3. calls' \subseteq Call
    BY <1>2, <2>2 DEF FailExecution, DiscardOpen, RowTypes
  <2>4. QED
    BY <1>2, <2>1, <2>3, ExpiredIsLease DEF FailExecution, RowTypes, Active, Terminal
<1>3. QED
  BY <1>1, <1>2 DEF FailExecution

\* Web requests touch the row only.
LEMMA RequestTypes ==
  ASSUME TypeOK, NEW r \in Runs, Request(r)
  PROVE  TypeOK'
<1> USE DEF Request
<1>1. RowTypes /\ ProcessTypes /\ SupervisorTypes
  BY DEF TypeOK, RowTypes, ProcessTypes, SupervisorTypes
<1>2. ProcessTypes' /\ SupervisorTypes'
  BY <1>1 DEF Start, Resubmit, Continue, Abort, supVars, ProcessTypes, SupervisorTypes
<1>3. RowTypes'
  <2>1. CASE Start(r)
    BY <1>1, <2>1, DispatchTypes DEF Start, RowTypes, Active
  <2>2. CASE Resubmit(r)
    BY <1>1, <2>2, DispatchTypes DEF Resubmit, RowTypes
  <2>3. CASE Continue(r)
    <3>1. NextGeneration(r) \in Nat
      BY <1>1 DEF NextGeneration, RowTypes
    <3>2. Dispatch(r, NextGeneration(r), FALSE)
      BY <2>3 DEF Continue
    <3>3. QED
      BY <1>1, <2>3, <3>1, <3>2, DispatchTypes DEF Continue, RowTypes, Active
  <2>4. CASE Abort(r)
    BY <1>1, <2>4 DEF Abort, RowTypes, Terminal
  <2>5. QED
    BY <2>1, <2>2, <2>3, <2>4
<1>4. QED
  BY <1>2, <1>3 DEF TypeOK, RowTypes, ProcessTypes, SupervisorTypes

\* The steps of a supervisor.
LEMMA SuperviseTypes ==
  ASSUME TypeOK, NEW w \in Workers, Supervise(w)
  PROVE  TypeOK'
<1>1. RowTypes /\ ProcessTypes /\ SupervisorTypes
  BY DEF TypeOK, RowTypes, ProcessTypes, SupervisorTypes
<1> USE <1>1
<1>2. CASE Launch(w)
  BY <1>2 DEF TypeOK, Launch, Goto, RowTypes, ProcessTypes, SupervisorTypes, runVars
<1>3. CASE ReapRead(w)
  <2>1. Orphans \subseteq Claim
    BY ConstantsAssumption DEF Orphans, Claim, RowTypes
  <2>2. QED
    BY <1>3, <2>1 DEF TypeOK, ReapRead, Goto, RowTypes, ProcessTypes, SupervisorTypes, runVars
<1>4. CASE ReapAct(w)
  <2>1. PICK c \in todo[w] : FailExecution(c, TRUE) /\ todo' = [todo EXCEPT ![w] = @ \ {c}]
    BY <1>4 DEF ReapAct
  <2>2. c \in Claim
    BY DEF SupervisorTypes
  <2>3. RowTypes'
    BY <2>1, <2>2, FailTypes
  <2>4. SupervisorTypes' /\ ProcessTypes'
    BY <1>4, <2>1 DEF ReapAct, SupervisorTypes, ProcessTypes
  <2>5. QED
    BY <2>3, <2>4 DEF TypeOK, RowTypes, ProcessTypes, SupervisorTypes
<1>5. CASE ReapEnd(w)
  BY <1>5 DEF TypeOK, ReapEnd, Goto, RowTypes, ProcessTypes, SupervisorTypes, runVars
<1>6. CASE PollRead(w)
  BY <1>6 DEF TypeOK, PollRead, Goto, RowTypes, ProcessTypes, SupervisorTypes, runVars
<1>7. CASE PollAct(w)
  <2>1. PICK c \in cur[w] :
          IF Settled(w, c)
          THEN /\ procs' = procs \ Alive(c)
               /\ IF stale[w] THEN UNCHANGED runVars ELSE FailExecution(c, FALSE)
               /\ children' = [children EXCEPT ![w] = @ \ {c}]
          ELSE UNCHANGED <<runVars, procs, children>>
    BY <1>7 DEF PollAct
  <2>2. c \in Claim
    BY DEF SupervisorTypes
  <2>3. RowTypes'
    BY <2>1, <2>2, FailTypes DEF RowTypes, runVars
  <2>4. ProcessTypes'
    BY <1>7, <2>1 DEF PollAct, ProcessTypes
  <2>5. children' \in [Workers -> SUBSET Claim]
    BY <2>1 DEF SupervisorTypes
  <2>6. SupervisorTypes'
    BY <1>7, <2>5 DEF PollAct, Goto, SupervisorTypes
  <2>7. QED
    BY <2>3, <2>4, <2>6 DEF TypeOK, RowTypes, ProcessTypes, SupervisorTypes
<1>8. CASE PollEnd(w)
  BY <1>8 DEF TypeOK, PollEnd, Goto, RowTypes, ProcessTypes, SupervisorTypes, runVars
<1>9. CASE RenewRead(w)
  BY <1>9, ConstantsAssumption DEF TypeOK, RenewRead, Goto, RowTypes, ProcessTypes, SupervisorTypes, runVars
<1>10. CASE RenewWrite(w)
  <2>1. LeaseTicks - ago[w] \in Expired .. LeaseTicks
    BY ConstantsAssumption DEF SupervisorTypes, Expired
  <2>2. PICK c \in cur[w] :
          \/ lease' = [lease EXCEPT ![c.run] = LeaseTicks - ago[w]] /\ UNCHANGED procs
          \/ procs' = procs \ Alive(c) /\ UNCHANGED lease
    BY <1>10 DEF RenewWrite, RenewedLease
  <2>3. RowTypes'
    BY <1>10, <2>1, <2>2 DEF RenewWrite, RowTypes
  <2>4. SupervisorTypes' /\ ProcessTypes'
    BY <1>10, <2>2, ConstantsAssumption
       DEF RenewWrite, Goto, SupervisorTypes, ProcessTypes
  <2>5. QED
    BY <2>3, <2>4 DEF TypeOK, RowTypes, ProcessTypes, SupervisorTypes
<1>11. CASE BeatEnd(w)
  BY <1>11 DEF TypeOK, BeatEnd, Goto, RowTypes, ProcessTypes, SupervisorTypes, runVars
<1>12. CASE ClaimRun(w)
  <2>1. PICK r \in Runs :
          /\ exec' = [exec EXCEPT ![r] = gen[r]]
          /\ worker' = [worker EXCEPT ![r] = w]
          /\ lease' = [lease EXCEPT ![r] = LeaseTicks]
          /\ cur' = [cur EXCEPT ![w] = {[run |-> r, gen |-> gen[r], worker |-> w]}]
    BY <1>12 DEF ClaimRun
  <2>2. [run |-> r, gen |-> gen[r], worker |-> w] \in Claim
    BY DEF Claim, RowTypes
  <2>3. RowTypes'
    BY <1>12, <2>1, ExpiredIsLease DEF ClaimRun, RowTypes
  <2>4. SupervisorTypes' /\ ProcessTypes'
    BY <1>12, <2>1, <2>2 DEF ClaimRun, Goto, SupervisorTypes, ProcessTypes
  <2>5. QED
    BY <2>3, <2>4 DEF TypeOK, RowTypes, ProcessTypes, SupervisorTypes
<1>13. CASE SpawnOk(w)
  <2>1. PICK c \in cur[w] :
          /\ procs' = procs \union
               {[run |-> c.run, gen |-> c.gen, worker |-> w, at |-> "boot"]}
          /\ children' = [children EXCEPT ![w] = WithChild(w, c)]
    BY <1>13 DEF SpawnOk
  <2>2. c \in Claim
    BY DEF SupervisorTypes
  <2>3. [run |-> c.run, gen |-> c.gen, worker |-> w, at |-> "boot"] \in Process
    BY <2>2 DEF Claim, Process
  <2>4. WithChild(w, c) \subseteq Claim
    BY <2>2 DEF WithChild, SupervisorTypes
  <2>5. RowTypes'
    BY <1>13 DEF SpawnOk, RowTypes, runVars
  <2>6. SupervisorTypes' /\ ProcessTypes'
    BY <1>13, <2>1, <2>3, <2>4 DEF SpawnOk, Goto, SupervisorTypes, ProcessTypes
  <2>7. QED
    BY <2>5, <2>6 DEF TypeOK, RowTypes, ProcessTypes, SupervisorTypes
<1>14. CASE SpawnFail(w)
  <2>1. PICK c \in cur[w] : FailExecution(c, FALSE)
    BY <1>14 DEF SpawnFail
  <2>2. c \in Claim
    BY DEF SupervisorTypes
  <2>3. RowTypes'
    BY <2>1, <2>2, FailTypes
  <2>4. SupervisorTypes' /\ ProcessTypes'
    BY <1>14 DEF SpawnFail, Goto, SupervisorTypes, ProcessTypes
  <2>5. QED
    BY <2>3, <2>4 DEF TypeOK, RowTypes, ProcessTypes, SupervisorTypes
<1>15. CASE ClaimEnd(w)
  BY <1>15 DEF TypeOK, ClaimEnd, Goto, RowTypes, ProcessTypes, SupervisorTypes, runVars
<1>16. CASE ExitOne(w)
  <2>1. PICK c \in todo[w] :
          /\ FailExecution(c, FALSE) \/ UNCHANGED runVars
          /\ procs' = procs \ Alive(c)
          /\ todo' = [todo EXCEPT ![w] = @ \ {c}]
          /\ children' = [children EXCEPT ![w] = @ \ {c}]
    BY <1>16 DEF ExitOne, Fence
  <2>2. c \in Claim
    BY DEF SupervisorTypes
  <2>3. RowTypes'
    BY <2>1, <2>2, FailTypes DEF RowTypes, runVars
  <2>4. SupervisorTypes' /\ ProcessTypes'
    BY <1>16, <2>1 DEF ExitOne, SupervisorTypes, ProcessTypes
  <2>5. QED
    BY <2>3, <2>4 DEF TypeOK, RowTypes, ProcessTypes, SupervisorTypes
<1>17. CASE ExitEnd(w)
  BY <1>17 DEF TypeOK, ExitEnd, Goto, RowTypes, ProcessTypes, SupervisorTypes, runVars
<1>18. QED
  BY <1>2, <1>3, <1>4, <1>5, <1>6, <1>7, <1>8, <1>9, <1>10, <1>11, <1>12,
     <1>13, <1>14, <1>15, <1>16, <1>17 DEF Supervise

\* The steps of an executor child.
LEMMA ExecuteTypes ==
  ASSUME TypeOK, NEW p \in procs, Execute(p)
  PROVE  TypeOK'
<1>1. RowTypes /\ ProcessTypes /\ SupervisorTypes
  BY DEF TypeOK, RowTypes, ProcessTypes, SupervisorTypes
<1>2. p \in Process /\ ClaimOf(p) \in Claim
  BY <1>1 DEF ProcessTypes, Process, ClaimOf, Claim
<1>3. /\ p.run \in Runs /\ p.gen \in Nat
      /\ Others(p) \subseteq Call
      /\ \A st \in {"running", "success", "discarded"} : Record(p, st) \subseteq Call
  BY <1>1, <1>2 DEF Process, Others, Record, RowTypes, Call
<1>4. \A at \in {"idle", "call", "done"} : [p EXCEPT !.at = at] \in Process
  BY <1>2 DEF Process
<1>5. SupervisorTypes' /\ ProcessTypes'
  BY <1>1, <1>4 DEF Execute, Boot, Reserve, Answer, Pause, Conclude, Error, Quit,
     Becomes, supVars, SupervisorTypes, ProcessTypes
<1>6. RowTypes'
  <2>1. CASE FailExecution(ClaimOf(p), FALSE)
    BY <1>1, <1>2, <2>1, FailTypes
  <2>2. CASE UNCHANGED runVars
    BY <1>1, <2>2 DEF RowTypes, runVars
  <2>3. CASE Reserve(p) \/ Answer(p)
    BY <1>1, <1>3, <2>3 DEF Reserve, Answer, RowTypes
  <2>4. CASE Pause(p) \/ Conclude(p)
    BY <1>1, <1>3, <2>4 DEF Pause, Conclude, RowTypes, Active, Terminal
  <2>5. QED
    BY <2>1, <2>2, <2>3, <2>4 DEF Execute, Boot, Error, Quit
<1>7. QED
  BY <1>5, <1>6 DEF TypeOK, RowTypes, ProcessTypes, SupervisorTypes

\* Time, signals and crashes.
LEMMA EnvironmentTypes ==
  ASSUME TypeOK, Environment
  PROVE  TypeOK'
<1>1. RowTypes /\ ProcessTypes /\ SupervisorTypes
  BY DEF TypeOK, RowTypes, ProcessTypes, SupervisorTypes
<1>2. CASE Tick
  <2>1. lease' \in [Runs -> Expired .. LeaseTicks]
    BY <1>1, <1>2, ExpiredIsLease, ConstantsAssumption DEF Tick, RowTypes, Expired
  <2>2. ago' \in [Workers -> 0 .. MaxRenewDelay] /\ age' \in [Runs -> Nat]
    BY <1>1, <1>2, ConstantsAssumption DEF Tick, SupervisorTypes, ProcessTypes
  <2>3. QED
    BY <1>1, <1>2, <2>1, <2>2
       DEF Tick, TypeOK, RowTypes, ProcessTypes, SupervisorTypes
<1>3. ASSUME NEW w \in Workers,
             StopSignal(w) \/ TerminalInterrupt(w) \/ LoopError(w) \/ Crash(w)
      PROVE  TypeOK'
  <2>1. RowTypes'
    BY <1>1, <1>3
       DEF StopSignal, TerminalInterrupt, LoopError, Crash, runVars, RowTypes
  <2>2. ProcessTypes'
    BY <1>1, <1>3 DEF StopSignal, TerminalInterrupt, LoopError, Crash, ProcessTypes
  <2>3. SupervisorTypes'
    <3>1. CASE StopSignal(w) \/ TerminalInterrupt(w)
      BY <1>1, <3>1 DEF StopSignal, TerminalInterrupt, SupervisorTypes
    <3>2. CASE LoopError(w)
      BY <1>1, <3>2, ConstantsAssumption DEF LoopError, Goto, SupervisorTypes
    <3>3. CASE Crash(w)
      BY <1>1, <3>3, ConstantsAssumption DEF Crash, Goto, SupervisorTypes
    <3>4. QED
      BY <1>3, <3>1, <3>2, <3>3
  <2>4. QED
    BY <2>1, <2>2, <2>3 DEF TypeOK, RowTypes, ProcessTypes, SupervisorTypes
<1>4. ASSUME NEW p \in procs, ChildCrash(p)
      PROVE  TypeOK'
  BY <1>4 DEF ChildCrash, TypeOK, runVars, supVars
<1>5. QED
  BY <1>2, <1>3, <1>4 DEF Environment

\* The initial state is well-typed.
LEMMA InitTypes == Init => TypeOK
BY ConstantsAssumption, ExpiredIsLease DEF Init, TypeOK, Active, Terminal

\* A stuttering step keeps the types.
LEMMA StutterTypes == TypeOK /\ UNCHANGED vars => TypeOK'
BY DEF vars, runVars, supVars, TypeOK

\* Every reachable state is well-typed, whatever fails in whatever order.
THEOREM TypeCorrect == Spec => []TypeOK
<1>1. TypeOK /\ [Next]_vars => TypeOK'
  BY RequestTypes, SuperviseTypes, ExecuteTypes, EnvironmentTypes, StutterTypes
     DEF Next
<1>2. QED
  BY <1>1, InitTypes, PTL DEF Spec

---------------------------------------------------------------------------
(* The inductive invariant.  Most steps leave the run, its generations and *)
(* its calls alone or fail the run through fail_execution; such a row step *)
(* is summed up once.                                                      *)

RowIsKept == UNCHANGED <<status, gen, exec, calls>>

HarmlessRow ==
  /\ exec' = exec
  /\ \A r \in Runs :
       \/ status'[r] = status[r] /\ gen'[r] = gen[r]
       \/ /\ status[r] = "running" /\ gen[r] = exec[r]
          /\ status'[r] = "failed" /\ gen'[r] = gen[r] + 1
  /\ \A k \in calls' : \E j \in calls : k.run = j.run /\ k.gen = j.gen
  /\ \A k \in calls' : k.st = "running" =>
       k \in calls /\ (gen'[k.run] = gen[k.run] \/ k.gen # gen[k.run])
  /\ \A k \in calls' : k.st = "discarded" =>
       k \in calls \/ (exec[k.run] = k.gen /\ status'[k.run] = "failed")

\* fail_execution touches a run only while the claim holds it, advances its
\* generation and leaves no call of the failed generation running.
LEMMA FailIsHarmless ==
  ASSUME TypeOK, NEW c \in Claim, NEW only \in BOOLEAN, FailExecution(c, only)
  PROVE  HarmlessRow
<1>1. CASE UNCHANGED runVars
  BY <1>1 DEF runVars, HarmlessRow
<1>2. CASE MayFail(c, only)
  <2>1. c.run \in Runs /\ c.gen \in Nat
    BY DEF Claim
  <2>2. /\ exec' = exec
        /\ \A r \in Runs :
             \/ status'[r] = status[r] /\ gen'[r] = gen[r]
             \/ /\ status[r] = "running" /\ gen[r] = exec[r]
                /\ status'[r] = "failed" /\ gen'[r] = gen[r] + 1
    BY <1>2, <2>1 DEF FailExecution, MayFail, TypeOK
  <2>3. \A k \in calls' : \E j \in calls : k.run = j.run /\ k.gen = j.gen
    BY <1>2 DEF FailExecution, DiscardOpen, OpenCall
  <2>4. ASSUME NEW k \in calls', k.st = "running"
        PROVE  k \in calls /\ (gen'[k.run] = gen[k.run] \/ k.gen # gen[k.run])
    <3>1. k \in calls /\ k # OpenCall(c.run, c.gen)
      BY <1>2, <2>4 DEF FailExecution, DiscardOpen, OpenCall
    <3>2. k.run # c.run \/ k.gen # c.gen
      BY <2>4, <3>1 DEF OpenCall, TypeOK, Call
    <3>3. k.run \in Runs
      BY <3>1 DEF TypeOK, Call
    <3>4. QED
      BY <1>2, <2>1, <3>1, <3>2, <3>3 DEF FailExecution, MayFail, TypeOK
  <2>5. \A k \in calls' : k.st = "discarded" =>
          k \in calls \/ (exec[k.run] = k.gen /\ status'[k.run] = "failed")
    BY <1>2, <2>1 DEF FailExecution, MayFail, DiscardOpen, TypeOK
  <2>6. QED
    BY <2>2, <2>3, <2>4, <2>5 DEF HarmlessRow
<1>3. QED
  BY <1>1, <1>2 DEF FailExecution

\* A row that is kept is a harmless one.
LEMMA KeptIsHarmless == RowIsKept => HarmlessRow
BY DEF RowIsKept, HarmlessRow

\* A harmless step leaves the latest generation of a run the latest.
LEMMA LatestStays ==
  ASSUME HarmlessRow, NEW r \in Runs, NEW g, Latest(r, g)
  PROVE  Latest(r, g)'
BY DEF HarmlessRow, Latest, Terminal

\* A step that only fails runs, ends processes and gives up claims keeps the
\* invariant: the reaper, the poll, the shutdown and every crash.
LEMMA QuietStep ==
  ASSUME TypeOK, TypeOK', IInv, HarmlessRow, procs' \subseteq procs,
         \A v \in Unspawned' : v \in Unspawned /\ cur'[v] = cur[v]
  PROVE  IInv'
<1>1. \A p \in procs' : p \in procs /\ p.run \in Runs /\ p.gen \in Nat
  BY DEF TypeOK, Process
<1>2. \A k \in calls' : k.run \in Runs /\ k.gen \in Nat
  BY DEF TypeOK, Call
<1>3. \A v \in Unspawned : v \in Workers /\ \A c \in cur[v] : c.run \in Runs /\ c.gen \in Nat
  BY DEF Unspawned, TypeOK, Claim
<1>4. \A r \in Runs : gen[r] \in Nat /\ exec[r] \in Nat
  BY DEF TypeOK
<1>5. GenerationsAdvance'
  BY <1>1, <1>2, <1>3, <1>4 DEF IInv, GenerationsAdvance, HarmlessRow
<1>6. \A r \in Runs, g \in Nat : OpenCall(r, g) \in calls' => OpenCall(r, g) \in calls
  BY DEF HarmlessRow, OpenCall
<1>7. ClaimIsFresh'
  <2>1. SUFFICES ASSUME NEW w \in Unspawned', NEW c \in cur'[w]
                 PROVE  /\ \A p \in procs' : ~(p.run = c.run /\ p.gen = c.gen)
                        /\ \A v \in Unspawned' : \A d \in cur'[v] :
                             d.run = c.run /\ d.gen = c.gen => v = w
                        /\ OpenCall(c.run, c.gen) \notin calls'
                        /\ Latest(c.run, c.gen)'
    BY DEF ClaimIsFresh, OpenCall, Latest
  <2>2. w \in Unspawned /\ c \in cur[w] /\ c.run \in Runs /\ c.gen \in Nat
    BY <1>3
  <2>3. /\ \A p \in procs : ~(p.run = c.run /\ p.gen = c.gen)
        /\ \A v \in Unspawned : \A d \in cur[v] :
             d.run = c.run /\ d.gen = c.gen => v = w
        /\ OpenCall(c.run, c.gen) \notin calls
        /\ Latest(c.run, c.gen)
    BY <2>2 DEF IInv, ClaimIsFresh
  <2>4. Latest(c.run, c.gen)'
    BY <2>2, <2>3, LatestStays
  <2>5. QED
    BY <1>1, <1>6, <2>2, <2>3, <2>4
<1>8. ExecutorStateAgrees'
  <2>1. SUFFICES ASSUME NEW p \in procs'
                 PROVE  /\ p.at # "done" => Latest(p.run, p.gen)'
                        /\ p.at \in {"boot", "idle"} /\ p.gen = gen'[p.run]
                             => OpenCall(p.run, p.gen) \notin calls'
    BY DEF ExecutorStateAgrees, OpenCall
  <2>2. p.at # "done" => Latest(p.run, p.gen)'
    BY <1>1, LatestStays DEF IInv, ExecutorStateAgrees
  <2>3. p.gen = gen'[p.run] => p.gen = gen[p.run]
    BY <1>1, <1>4 DEF IInv, GenerationsAdvance, HarmlessRow
  <2>4. QED
    BY <1>1, <1>6, <2>2, <2>3 DEF IInv, ExecutorStateAgrees
<1>9. SingleExecutor'
  BY DEF IInv, SingleExecutor
<1>10. OpenCallsAreOwned'
  BY <1>2, <1>4 DEF IInv, OpenCallsAreOwned, HarmlessRow
<1>11. DiscardedCallsAreLast'
  BY <1>2, <1>4 DEF IInv, DiscardedCallsAreLast, HarmlessRow, Terminal
<1>12. QED
  BY <1>5, <1>7, <1>8, <1>9, <1>10, <1>11 DEF IInv

\* Claiming begins a generation nobody has seen before.
LEMMA ClaimStep ==
  ASSUME TypeOK, IInv, NEW w \in Workers, ClaimRun(w)
  PROVE  IInv'
<1>1. PICK r \in Runs :
        /\ status[r] = "running" /\ exec[r] # gen[r]
        /\ exec' = [exec EXCEPT ![r] = gen[r]]
        /\ cur' = [cur EXCEPT ![w] = {[run |-> r, gen |-> gen[r], worker |-> w]}]
  BY DEF ClaimRun, MayClaim, Claimable
<1>2. UNCHANGED <<status, gen, calls, procs>> /\ pc' = [pc EXCEPT ![w] = "spawn"] /\ pc[w] = "claim"
  BY DEF ClaimRun, Goto
<1>3. \A q \in Runs : gen[q] \in Nat /\ exec[q] \in Nat /\ exec[q] <= gen[q]
  BY DEF TypeOK, IInv, GenerationsAdvance
<1>4. gen[r] > exec[r] /\ \A q \in Runs : exec'[q] >= exec[q]
  BY <1>1, <1>3 DEF TypeOK
<1>5. \A v \in Unspawned' : v = w \/ (v \in Unspawned /\ v # w /\ cur'[v] = cur[v])
  BY <1>1, <1>2 DEF Unspawned, TypeOK
<1>6. cur'[w] = {[run |-> r, gen |-> gen[r], worker |-> w]}
  BY <1>1 DEF TypeOK
<1>7. \A p \in procs : p.run \in Runs /\ p.gen \in Nat /\ p.gen <= exec[p.run]
  BY DEF TypeOK, Process, IInv, GenerationsAdvance
<1>8. \A k \in calls : k.run \in Runs /\ k.gen \in Nat /\ k.gen <= exec[k.run]
  BY DEF TypeOK, Call, IInv, GenerationsAdvance
<1>9. \A v \in Unspawned : \A c \in cur[v] :
        c.run \in Runs /\ c.gen \in Nat /\ c.gen <= exec[c.run]
  BY DEF Unspawned, TypeOK, Claim, IInv, GenerationsAdvance
<1>10. GenerationsAdvance'
  <2>1. \A q \in Runs :
          /\ exec'[q] <= gen'[q]
          /\ status'[q] = "none" => exec'[q] = 0 /\ gen'[q] = 1
          /\ status'[q] = "running" => gen'[q] <= exec'[q] + 1
          /\ status'[q] = "waiting_human" => gen'[q] = exec'[q]
    BY <1>1, <1>2, <1>3 DEF TypeOK, IInv, GenerationsAdvance
  <2>2. /\ \A p \in procs' : p.gen <= exec'[p.run]
        /\ \A k \in calls' : k.gen <= exec'[k.run]
    BY <1>1, <1>2, <1>3, <1>4, <1>7, <1>8 DEF TypeOK
  <2>3. \A v \in Unspawned' : \A c \in cur'[v] : c.gen <= exec'[c.run]
    BY <1>1, <1>3, <1>4, <1>5, <1>6, <1>9 DEF TypeOK
  <2>4. QED
    BY <2>1, <2>2, <2>3 DEF GenerationsAdvance
<1>11. \A q \in Runs, g \in Nat : Latest(q, g) => q # r /\ Latest(q, g)'
  BY <1>1, <1>2, <1>3 DEF Latest, Terminal, TypeOK
<1>12. ClaimIsFresh'
  <2>1. \A v \in Unspawned : \A c \in cur[v] : ~(c.run = r /\ c.gen = gen[r])
    BY <1>3, <1>4, <1>9
  <2>2. \A p \in procs : ~(p.run = r /\ p.gen = gen[r])
    BY <1>3, <1>4, <1>7
  <2>3. OpenCall(r, gen[r]) \notin calls
    BY <1>3, <1>4, <1>8 DEF OpenCall
  <2>4. SUFFICES ASSUME NEW v \in Unspawned', NEW c \in cur'[v]
                 PROVE  /\ \A p \in procs' : ~(p.run = c.run /\ p.gen = c.gen)
                        /\ \A u \in Unspawned' : \A d \in cur'[u] :
                             d.run = c.run /\ d.gen = c.gen => u = v
                        /\ OpenCall(c.run, c.gen) \notin calls'
                        /\ Latest(c.run, c.gen)'
    BY DEF ClaimIsFresh, OpenCall, Latest
  <2>5. CASE v = w
    <3>1. c.run = r /\ c.gen = gen[r]
      BY <1>6, <2>4, <2>5
    <3>2. Latest(r, gen[r])'
      BY <1>1, <1>2 DEF Latest, TypeOK
    <3>3. QED
      BY <1>2, <1>5, <1>6, <2>1, <2>2, <2>3, <2>5, <3>1, <3>2
  <2>6. CASE v # w
    <3>1. v \in Unspawned /\ c \in cur[v]
      BY <1>5, <2>6
    <3>2. /\ \A p \in procs : ~(p.run = c.run /\ p.gen = c.gen)
          /\ \A u \in Unspawned : \A d \in cur[u] :
               d.run = c.run /\ d.gen = c.gen => u = v
          /\ OpenCall(c.run, c.gen) \notin calls
          /\ Latest(c.run, c.gen)
      BY <3>1 DEF IInv, ClaimIsFresh
    <3>3. ~(c.run = r /\ c.gen = gen[r])
      BY <2>1, <3>1
    <3>4. Latest(c.run, c.gen)'
      BY <1>9, <1>11, <3>1, <3>2
    <3>5. QED
      BY <1>2, <1>5, <1>6, <3>2, <3>3, <3>4
  <2>7. QED
    BY <2>5, <2>6
<1>13. ExecutorStateAgrees'
  BY <1>2, <1>7, <1>11 DEF IInv, ExecutorStateAgrees, OpenCall
<1>14. DiscardedCallsAreLast'
  BY <1>1, <1>2, <1>8 DEF IInv, DiscardedCallsAreLast, Terminal, TypeOK
<1>15. SingleExecutor' /\ OpenCallsAreOwned'
  BY <1>2 DEF IInv, SingleExecutor, OpenCallsAreOwned
<1>16. QED
  BY <1>10, <1>12, <1>13, <1>14, <1>15 DEF IInv

\* The process of a claim is the first of its generation.
LEMMA SpawnStep ==
  ASSUME TypeOK, IInv, NEW w \in Workers, SpawnOk(w)
  PROVE  IInv'
<1>1. PICK c \in cur[w] :
        procs' = procs \union
          {[run |-> c.run, gen |-> c.gen, worker |-> w, at |-> "boot"]}
  BY DEF SpawnOk
<1>2. /\ UNCHANGED <<status, gen, exec, calls>>
      /\ pc' = [pc EXCEPT ![w] = "claim"] /\ pc[w] = "spawn"
      /\ cur' = [cur EXCEPT ![w] = {}]
  BY DEF SpawnOk, Goto, runVars
<1>3. w \in Unspawned /\ c \in Claim
  BY <1>2 DEF Unspawned, TypeOK
<1>4. \A v \in Unspawned' : v \in Unspawned /\ v # w /\ cur'[v] = cur[v]
  BY <1>2 DEF Unspawned, TypeOK
<1>5. /\ \A p \in procs : ~(p.run = c.run /\ p.gen = c.gen)
      /\ \A v \in Unspawned : \A d \in cur[v] :
           d.run = c.run /\ d.gen = c.gen => v = w
      /\ OpenCall(c.run, c.gen) \notin calls
      /\ Latest(c.run, c.gen)
      /\ c.gen <= exec[c.run]
  BY <1>3 DEF IInv, ClaimIsFresh, GenerationsAdvance
<1>6. GenerationsAdvance'
  BY <1>1, <1>2, <1>4, <1>5 DEF IInv, GenerationsAdvance
<1>7. ClaimIsFresh'
  <2>1. SUFFICES ASSUME NEW v \in Unspawned', NEW d \in cur'[v]
                 PROVE  /\ \A p \in procs' : ~(p.run = d.run /\ p.gen = d.gen)
                        /\ \A u \in Unspawned' : \A f \in cur'[u] :
                             f.run = d.run /\ f.gen = d.gen => u = v
                        /\ OpenCall(d.run, d.gen) \notin calls'
                        /\ Latest(d.run, d.gen)'
    BY DEF ClaimIsFresh, OpenCall, Latest
  <2>2. v \in Unspawned /\ v # w /\ d \in cur[v]
    BY <1>4
  <2>3. /\ \A p \in procs : ~(p.run = d.run /\ p.gen = d.gen)
        /\ \A u \in Unspawned : \A f \in cur[u] :
             f.run = d.run /\ f.gen = d.gen => u = v
        /\ OpenCall(d.run, d.gen) \notin calls
        /\ Latest(d.run, d.gen)
    BY <2>2 DEF IInv, ClaimIsFresh
  <2>4. ~(c.run = d.run /\ c.gen = d.gen)
    BY <1>5, <2>2
  <2>5. Latest(d.run, d.gen)'
    BY <1>2, <2>3 DEF Latest
  <2>6. QED
    BY <1>1, <1>2, <1>4, <2>3, <2>4, <2>5
<1>8. ExecutorStateAgrees'
  <2>1. SUFFICES ASSUME NEW p \in procs'
                 PROVE  /\ p.at # "done" => Latest(p.run, p.gen)'
                        /\ p.at \in {"boot", "idle"} /\ p.gen = gen'[p.run]
                             => OpenCall(p.run, p.gen) \notin calls'
    BY DEF ExecutorStateAgrees, OpenCall, Latest
  <2>2. p \in procs \/ (p.run = c.run /\ p.gen = c.gen)
    BY <1>1
  <2>3. /\ p.at # "done" => Latest(p.run, p.gen)
        /\ p.at \in {"boot", "idle"} /\ p.gen = gen[p.run]
             => OpenCall(p.run, p.gen) \notin calls
    BY <1>5, <2>2 DEF IInv, ExecutorStateAgrees
  <2>4. QED
    BY <1>2, <2>3 DEF Latest
<1>9. SingleExecutor'
  BY <1>1, <1>5 DEF IInv, SingleExecutor
<1>10. OpenCallsAreOwned' /\ DiscardedCallsAreLast'
  BY <1>2 DEF IInv, OpenCallsAreOwned, DiscardedCallsAreLast
<1>11. QED
  BY <1>6, <1>7, <1>8, <1>9, <1>10 DEF IInv

\* A supervisor's steps: all but claiming and spawning are quiet.
LEMMA SuperviseInv ==
  ASSUME TypeOK, IInv, NEW w \in Workers, Supervise(w)
  PROVE  IInv'
<1>1. TypeOK'
  BY SuperviseTypes
<1>2. CASE ClaimRun(w)
  BY <1>2, ClaimStep
<1>3. CASE SpawnOk(w)
  BY <1>3, SpawnStep
<1>4. CASE ReapAct(w) \/ PollAct(w) \/ SpawnFail(w) \/ ExitOne(w)
  <2>1. UNCHANGED runVars \/ \E c \in Claim, only \in BOOLEAN : FailExecution(c, only)
    BY <1>4 DEF ReapAct, PollAct, SpawnFail, ExitOne, Fence, TypeOK
  <2>2. HarmlessRow
    BY <2>1, FailIsHarmless, KeptIsHarmless DEF RowIsKept, runVars
  <2>3. procs' \subseteq procs
    BY <1>4 DEF ReapAct, PollAct, SpawnFail, ExitOne
  <2>4. \A v \in Unspawned' : v \in Unspawned /\ cur'[v] = cur[v]
    BY <1>4 DEF ReapAct, PollAct, SpawnFail, ExitOne, Goto, Unspawned, TypeOK
  <2>5. QED
    BY <1>1, <2>2, <2>3, <2>4, QuietStep
<1>5. CASE \/ Launch(w) \/ ReapRead(w) \/ ReapEnd(w) \/ PollRead(w) \/ PollEnd(w)
           \/ RenewRead(w) \/ RenewWrite(w) \/ BeatEnd(w) \/ ClaimEnd(w) \/ ExitEnd(w)
  <2>1. RowIsKept
    BY <1>5 DEF Launch, ReapRead, ReapEnd, PollRead, PollEnd, RenewRead, RenewWrite,
       BeatEnd, ClaimEnd, ExitEnd, RowIsKept, runVars
  <2>2. procs' \subseteq procs
    BY <1>5 DEF Launch, ReapRead, ReapEnd, PollRead, PollEnd, RenewRead, RenewWrite,
       BeatEnd, ClaimEnd, ExitEnd
  <2>3. \A v \in Unspawned' : v \in Unspawned /\ cur'[v] = cur[v]
    BY <1>5 DEF Launch, ReapRead, ReapEnd, PollRead, PollEnd, RenewRead, RenewWrite,
       BeatEnd, ClaimEnd, ExitEnd, Goto, Unspawned, TypeOK
  <2>4. QED
    BY <1>1, <2>1, <2>2, <2>3, KeptIsHarmless, QuietStep
<1>6. QED
  BY <1>2, <1>3, <1>4, <1>5 DEF Supervise

\* The environment: time passes, signals arrive, processes die.
LEMMA EnvironmentInv ==
  ASSUME TypeOK, IInv, Environment
  PROVE  IInv'
<1>1. TypeOK'
  BY EnvironmentTypes
<1>2. RowIsKept /\ procs' \subseteq procs
  BY DEF Environment, Tick, StopSignal, TerminalInterrupt, LoopError, Crash,
     ChildCrash, RowIsKept, runVars
<1>3. \A v \in Unspawned' : v \in Unspawned /\ cur'[v] = cur[v]
  BY DEF Environment, Tick, StopSignal, TerminalInterrupt, LoopError, Crash,
     ChildCrash, Goto, supVars, Unspawned, TypeOK
<1>4. QED
  BY <1>1, <1>2, <1>3, KeptIsHarmless, QuietStep

\* The invariant's part about claims survives every step that leaves the claims'
\* runs out of the waiting state and opens no call of theirs.
LEMMA FreshClaimsStay ==
  ASSUME TypeOK, IInv, UNCHANGED <<pc, cur>>,
         \A q \in procs' : \E o \in procs : o.run = q.run /\ o.gen = q.gen,
         \A w \in Unspawned : \A c \in cur[w] :
           /\ OpenCall(c.run, c.gen) \notin calls'
           /\ Latest(c.run, c.gen)'
  PROVE  ClaimIsFresh'
<1>1. Unspawned' = Unspawned
  BY DEF Unspawned
<1>2. SUFFICES ASSUME NEW w \in Unspawned', NEW c \in cur'[w]
               PROVE  /\ \A p \in procs' : ~(p.run = c.run /\ p.gen = c.gen)
                      /\ \A v \in Unspawned' : \A d \in cur'[v] :
                           d.run = c.run /\ d.gen = c.gen => v = w
                      /\ OpenCall(c.run, c.gen) \notin calls'
                      /\ Latest(c.run, c.gen)'
  BY DEF ClaimIsFresh, OpenCall, Latest
<1>3. w \in Unspawned /\ c \in cur[w]
  BY <1>1
<1>4. /\ \A p \in procs : ~(p.run = c.run /\ p.gen = c.gen)
      /\ \A v \in Unspawned : \A d \in cur[v] :
           d.run = c.run /\ d.gen = c.gen => v = w
  BY <1>3 DEF IInv, ClaimIsFresh
<1>5. QED
  BY <1>1, <1>3, <1>4

\* Starting, continuing and aborting: a new generation has no claim, no
\* process and no call.
LEMMA RequestInv ==
  ASSUME TypeOK, IInv, NEW r \in Runs, Request(r)
  PROVE  IInv'
<1>1. UNCHANGED <<exec, calls, procs, pc, cur>>
  BY DEF Request, Start, Resubmit, Continue, Abort, supVars
<1>2. \A q \in Runs \ {r} : status'[q] = status[q] /\ gen'[q] = gen[q]
  BY DEF Request, Start, Resubmit, Continue, Abort, TypeOK
<1>3. \/ status[r] = "none" /\ status'[r] = "running" /\ gen'[r] = gen[r]
      \/ status'[r] = status[r] /\ gen'[r] = gen[r]
      \/ status[r] = "waiting_human" /\ status'[r] = "running" /\ gen'[r] = gen[r] + 1
      \/ status[r] \in Active /\ status'[r] = "aborted" /\ gen'[r] = gen[r] + 1
  BY DEF Request, Start, Resubmit, Continue, Continuable, NextGeneration, Abort, TypeOK
<1>4. \A q \in Runs : gen[q] \in Nat /\ exec[q] \in Nat
  BY DEF TypeOK
<1>5. /\ \A p \in procs : p.run \in Runs /\ p.gen \in Nat
      /\ \A k \in calls : k.run \in Runs /\ k.gen \in Nat
      /\ \A v \in Workers : \A c \in cur[v] : c.run \in Runs /\ c.gen \in Nat
  BY DEF TypeOK, Process, Call, Claim
<1>6. GenerationsAdvance'
  BY <1>1, <1>2, <1>3, <1>4 DEF IInv, GenerationsAdvance, Unspawned
<1>7. \A q \in Runs, g \in Nat : Latest(q, g) => Latest(q, g)'
  BY <1>1, <1>2, <1>3 DEF Latest, Terminal, Active
<1>8. ClaimIsFresh'
  <2>2. \A w \in Unspawned : \A c \in cur[w] : Latest(c.run, c.gen)'
    BY <1>5, <1>7 DEF IInv, ClaimIsFresh, Unspawned
  <2>3. \A w \in Unspawned : \A c \in cur[w] : OpenCall(c.run, c.gen) \notin calls'
    BY <1>1 DEF IInv, ClaimIsFresh
  <2>4. QED
    BY <1>1, <2>2, <2>3, FreshClaimsStay
<1>9. ExecutorStateAgrees'
  <2>1. \A p \in procs : p.at # "done" => Latest(p.run, p.gen)'
    BY <1>5, <1>7 DEF IInv, ExecutorStateAgrees
  <2>2. \A p \in procs : p.gen = gen'[p.run] => p.gen = gen[p.run]
    BY <1>2, <1>3, <1>4, <1>5 DEF IInv, GenerationsAdvance
  <2>3. QED
    BY <1>1, <2>1, <2>2 DEF IInv, ExecutorStateAgrees, OpenCall
<1>10. SingleExecutor'
  BY <1>1 DEF IInv, SingleExecutor
<1>11. OpenCallsAreOwned'
  BY <1>1, <1>2, <1>3, <1>4, <1>5 DEF IInv, OpenCallsAreOwned
<1>12. DiscardedCallsAreLast'
  BY <1>1, <1>2, <1>3, <1>5 DEF IInv, DiscardedCallsAreLast, Terminal, Active
<1>13. QED
  BY <1>6, <1>8, <1>9, <1>10, <1>11, <1>12 DEF IInv

\* An executor that goes on or ends keeps its run and generation to itself.
LEMMA ProcessStep ==
  ASSUME TypeOK, IInv, NEW p \in procs, NEW at,
         Becomes(p, at) \/ procs' = procs \ {p}
  PROVE  /\ \A q \in procs' :
              \/ q \in procs /\ q # p /\ ~(q.run = p.run /\ q.gen = p.gen)
              \/ q.run = p.run /\ q.gen = p.gen /\ q.at = at
         /\ SingleExecutor'
<1>1. p \in Process
  BY DEF TypeOK
<1> DEFINE moved == [p EXCEPT !.at = at]
<1>2. moved.run = p.run /\ moved.gen = p.gen /\ moved.at = at
  BY <1>1 DEF Process
<1>3. \A q \in procs : q # p => ~(q.run = p.run /\ q.gen = p.gen)
  BY DEF IInv, SingleExecutor
<1>4. \A q \in procs' :
        \/ q \in procs /\ q # p /\ ~(q.run = p.run /\ q.gen = p.gen)
        \/ q = moved
  BY <1>3 DEF Becomes
<1> HIDE DEF moved
<1>5. SingleExecutor'
  BY <1>2, <1>4 DEF IInv, SingleExecutor
<1>6. QED
  BY <1>2, <1>4, <1>5

\* Booting, breaking off and ending: at most the run fails.
LEMMA ExecutorEndInv ==
  ASSUME TypeOK, TypeOK', IInv, NEW p \in procs, Boot(p) \/ Error(p) \/ Quit(p)
  PROVE  IInv'
<1>1. p \in Process /\ ClaimOf(p) \in Claim
  BY DEF TypeOK, Process, ClaimOf, Claim
<1>2. UNCHANGED <<pc, cur>>
  BY DEF Boot, Error, Quit, supVars
<1>3. HarmlessRow
  <2>1. FailExecution(ClaimOf(p), FALSE) \/ RowIsKept
    BY DEF Boot, Error, Quit, RowIsKept, runVars
  <2>2. QED
    BY <1>1, <2>1, FailIsHarmless, KeptIsHarmless
<1>4. PICK at \in {"idle", "done"} :
        /\ Becomes(p, at) \/ procs' = procs \ {p}
        /\ at = "idle" => p.at = "boot"
  BY DEF Boot, Error, Quit
<1>5. /\ \A q \in procs' :
           \/ q \in procs /\ q # p /\ ~(q.run = p.run /\ q.gen = p.gen)
           \/ q.run = p.run /\ q.gen = p.gen /\ q.at = at
      /\ SingleExecutor'
  BY <1>4, ProcessStep
<1>6. \A q \in procs' : \E o \in procs : o.run = q.run /\ o.gen = q.gen
  BY <1>5
<1>7. \A r \in Runs : gen[r] \in Nat /\ exec[r] \in Nat
  BY DEF TypeOK
<1>8. \A q \in procs' : q.run \in Runs /\ q.gen \in Nat /\ q.gen <= exec[q.run]
  BY <1>6, <1>7 DEF TypeOK, Process, IInv, GenerationsAdvance
<1>9. \A r \in Runs, g \in Nat : OpenCall(r, g) \in calls' => OpenCall(r, g) \in calls
  BY <1>3 DEF HarmlessRow, OpenCall
<1>10. \A w \in Unspawned : \A c \in cur[w] : c.run \in Runs /\ c.gen \in Nat
  BY DEF Unspawned, TypeOK, Claim
<1>11. \A k \in calls' : k.run \in Runs /\ k.gen \in Nat
  BY DEF TypeOK, Call
<1>12. GenerationsAdvance'
  BY <1>2, <1>3, <1>7, <1>8, <1>10, <1>11 DEF IInv, GenerationsAdvance, HarmlessRow, Unspawned
<1>13. ClaimIsFresh'
  <2>1. ASSUME NEW w \in Unspawned, NEW c \in cur[w]
        PROVE  /\ OpenCall(c.run, c.gen) \notin calls'
               /\ Latest(c.run, c.gen)'
    <3>1. /\ OpenCall(c.run, c.gen) \notin calls
          /\ Latest(c.run, c.gen)
      BY DEF IInv, ClaimIsFresh
    <3>2. QED
      BY <1>3, <1>9, <1>10, <3>1, LatestStays
  <2>2. QED
    BY <1>2, <1>6, <2>1, FreshClaimsStay
<1>14. ExecutorStateAgrees'
  <2>1. SUFFICES ASSUME NEW q \in procs'
                 PROVE  /\ q.at # "done" => Latest(q.run, q.gen)'
                        /\ q.at \in {"boot", "idle"} /\ q.gen = gen'[q.run]
                             => OpenCall(q.run, q.gen) \notin calls'
    BY DEF ExecutorStateAgrees, OpenCall, Latest
  <2>2. q.gen = gen'[q.run] => q.gen = gen[q.run]
    BY <1>3, <1>7, <1>8 DEF HarmlessRow, IInv, GenerationsAdvance
  <2>3. /\ q.at # "done" => Latest(q.run, q.gen)
        /\ q.at \in {"boot", "idle"} /\ q.gen = gen[q.run]
             => OpenCall(q.run, q.gen) \notin calls
    BY <1>4, <1>5 DEF IInv, ExecutorStateAgrees
  <2>4. QED
    BY <1>3, <1>8, <1>9, <2>2, <2>3, LatestStays
<1>15. OpenCallsAreOwned'
  BY <1>3, <1>7, <1>11 DEF IInv, OpenCallsAreOwned, HarmlessRow
<1>16. DiscardedCallsAreLast'
  BY <1>3, <1>7, <1>11 DEF IInv, DiscardedCallsAreLast, HarmlessRow, Terminal
<1>17. QED
  BY <1>5, <1>12, <1>13, <1>14, <1>15, <1>16 DEF IInv

\* Reserving and answering: only the current executor opens a call, and it
\* closes it before it goes on.
LEMMA CallInv ==
  ASSUME TypeOK, TypeOK', IInv, NEW p \in procs, Reserve(p) \/ Answer(p)
  PROVE  IInv'
<1>1. UNCHANGED <<status, gen, exec, pc, cur>>
  BY DEF Reserve, Answer, supVars
<1>2. p.run \in Runs /\ p.gen \in Nat /\ p.gen <= exec[p.run]
  BY DEF TypeOK, Process, IInv, GenerationsAdvance
<1>3. \A k \in calls' : k \in calls \/ (k.run = p.run /\ k.gen = p.gen)
  BY DEF Reserve, Answer, Record, Others
<1>4. PICK at \in {"idle", "call", "done"} :
        /\ Becomes(p, at)
        /\ OpenCall(p.run, p.gen) \in calls' /\ gen[p.run] = p.gen => at # "idle"
        /\ p.at # "done"
  <2>1. CASE Reserve(p)
    BY <2>1 DEF Reserve
  <2>2. CASE Answer(p)
    <3>1. p.at = "call"
      BY <2>2 DEF Answer
    <3>2. \A st \in {"success", "discarded"} : OpenCall(p.run, p.gen) \notin Record(p, st)
      BY DEF Record, Others, OpenCall
    <3>3. OpenCall(p.run, p.gen) \notin Others(p)
      BY DEF Others, OpenCall
    <3>4. QED
      BY <2>2, <3>1, <3>2, <3>3 DEF Answer
  <2>3. QED
    BY <2>1, <2>2
<1>5. /\ \A q \in procs' :
           \/ q \in procs /\ q # p /\ ~(q.run = p.run /\ q.gen = p.gen)
           \/ q.run = p.run /\ q.gen = p.gen /\ q.at = at
      /\ SingleExecutor'
  BY <1>4, ProcessStep
<1>6. \A q \in procs' : \E o \in procs : o.run = q.run /\ o.gen = q.gen
  BY <1>5
<1>7. \A r \in Runs, g \in Nat :
        OpenCall(r, g) \in calls' => OpenCall(r, g) \in calls \/ (r = p.run /\ g = p.gen)
  BY <1>3 DEF OpenCall
<1>8. GenerationsAdvance'
  BY <1>1, <1>2, <1>3, <1>5 DEF IInv, GenerationsAdvance, Unspawned
<1>9. ClaimIsFresh'
  <2>1. ASSUME NEW w \in Unspawned, NEW c \in cur[w]
        PROVE  /\ OpenCall(c.run, c.gen) \notin calls'
               /\ Latest(c.run, c.gen)'
    <3>1. /\ ~(p.run = c.run /\ p.gen = c.gen)
          /\ OpenCall(c.run, c.gen) \notin calls
          /\ Latest(c.run, c.gen)
      BY DEF IInv, ClaimIsFresh
    <3>2. c.run \in Runs /\ c.gen \in Nat
      BY DEF Unspawned, TypeOK, Claim
    <3>3. QED
      BY <1>1, <1>7, <3>1, <3>2 DEF Latest
  <2>2. QED
    BY <1>1, <1>6, <2>1, FreshClaimsStay
<1>10. ExecutorStateAgrees'
  <2>1. SUFFICES ASSUME NEW q \in procs'
                 PROVE  /\ q.at # "done" => Latest(q.run, q.gen)'
                        /\ q.at \in {"boot", "idle"} /\ q.gen = gen'[q.run]
                             => OpenCall(q.run, q.gen) \notin calls'
    BY DEF ExecutorStateAgrees, OpenCall, Latest
  <2>2. q.run \in Runs /\ q.gen \in Nat
    BY DEF TypeOK, Process
  <2>3. CASE q \in procs /\ ~(q.run = p.run /\ q.gen = p.gen)
    BY <1>1, <1>7, <2>2, <2>3 DEF IInv, ExecutorStateAgrees, Latest
  <2>4. CASE q.run = p.run /\ q.gen = p.gen /\ q.at = at
    BY <1>1, <1>4, <2>4 DEF IInv, ExecutorStateAgrees, Latest
  <2>5. QED
    BY <1>5, <2>3, <2>4
<1>11. OpenCallsAreOwned'
  <2>1. CASE Reserve(p)
    BY <1>1, <1>3, <2>1 DEF Reserve, Current, IInv, OpenCallsAreOwned
  <2>2. CASE Answer(p)
    <3>1. \A k \in calls' : k.st = "running" => k \in calls
      BY <2>2 DEF Answer, Record, Others
    <3>2. QED
      BY <1>1, <3>1 DEF IInv, OpenCallsAreOwned
  <2>3. QED
    BY <2>1, <2>2
<1>12. DiscardedCallsAreLast'
  <2>1. \A k \in calls' : k.st = "discarded" =>
          k \in calls \/ (k.run = p.run /\ k.gen = p.gen /\ ~Current(p))
    BY DEF Reserve, Answer, Record, Others
  <2>2. ~Current(p) => exec[p.run] = p.gen /\ status[p.run] \in Terminal
    BY <1>4 DEF Current, Latest, IInv, ExecutorStateAgrees
  <2>3. QED
    BY <1>1, <2>1, <2>2 DEF IInv, DiscardedCallsAreLast
<1>13. QED
  BY <1>5, <1>8, <1>9, <1>10, <1>11, <1>12 DEF IInv

\* Pausing and concluding: the executor that owns the generation has closed its
\* calls and leaves its loop in the same step.
LEMMA BoundaryInv ==
  ASSUME TypeOK, TypeOK', IInv, NEW p \in procs, Pause(p) \/ Conclude(p)
  PROVE  IInv'
<1>1. UNCHANGED <<exec, calls, pc, cur>> /\ Becomes(p, "done") /\ p.at = "idle"
  BY DEF Pause, Conclude, supVars
<1>2. p.run \in Runs /\ p.gen \in Nat /\ p.gen = gen[p.run] /\ gen[p.run] = exec[p.run]
  BY DEF Pause, Conclude, Owns, TypeOK, Process, IInv, GenerationsAdvance
<1>3. status[p.run] = "running"
  BY <1>1, <1>2 DEF Pause, Conclude, Owns, Active, Terminal, IInv,
     ExecutorStateAgrees, Latest
<1>4. /\ \A r \in Runs \ {p.run} : status'[r] = status[r] /\ gen'[r] = gen[r]
      /\ \/ status'[p.run] = "waiting_human" /\ gen'[p.run] = gen[p.run]
         \/ status'[p.run] \in {"ready", "failed"} /\ gen'[p.run] = gen[p.run] + 1
  BY <1>2 DEF Pause, Conclude, TypeOK
<1>5. /\ \A q \in procs' :
           \/ q \in procs /\ q # p /\ ~(q.run = p.run /\ q.gen = p.gen)
           \/ q.run = p.run /\ q.gen = p.gen /\ q.at = "done"
      /\ SingleExecutor'
  BY <1>1, ProcessStep
<1>6. \A q \in procs' : \E o \in procs : o.run = q.run /\ o.gen = q.gen
  BY <1>5
<1>7. \A r \in Runs : gen[r] \in Nat /\ exec[r] \in Nat
  BY DEF TypeOK
<1>8. \A q \in procs' : q.run \in Runs /\ q.gen \in Nat /\ q.gen <= exec[q.run]
  BY <1>6, <1>7 DEF TypeOK, Process, IInv, GenerationsAdvance
<1>9. GenerationsAdvance'
  BY <1>1, <1>2, <1>4, <1>7, <1>8 DEF IInv, GenerationsAdvance, Unspawned
<1>10. ClaimIsFresh'
  <2>1. ASSUME NEW w \in Unspawned, NEW c \in cur[w]
        PROVE  /\ OpenCall(c.run, c.gen) \notin calls'
               /\ Latest(c.run, c.gen)'
    <3>1. /\ ~(p.run = c.run /\ p.gen = c.gen)
          /\ OpenCall(c.run, c.gen) \notin calls
          /\ Latest(c.run, c.gen)
      BY DEF IInv, ClaimIsFresh
    <3>2. c.run \in Runs /\ c.gen \in Nat
      BY DEF Unspawned, TypeOK, Claim
    <3>3. c.run # p.run
      BY <1>2, <3>1 DEF Latest
    <3>4. QED
      BY <1>1, <1>4, <3>1, <3>2, <3>3 DEF Latest
  <2>2. QED
    BY <1>1, <1>6, <2>1, FreshClaimsStay
<1>11. ExecutorStateAgrees'
  <2>1. SUFFICES ASSUME NEW q \in procs'
                 PROVE  /\ q.at # "done" => Latest(q.run, q.gen)'
                        /\ q.at \in {"boot", "idle"} /\ q.gen = gen'[q.run]
                             => OpenCall(q.run, q.gen) \notin calls'
    BY DEF ExecutorStateAgrees, OpenCall, Latest
  <2>2. CASE q \in procs /\ ~(q.run = p.run /\ q.gen = p.gen) /\ q.at # "done"
    <3>1. Latest(q.run, q.gen)
      BY <2>2 DEF IInv, ExecutorStateAgrees
    <3>2. q.run # p.run
      BY <1>2, <2>2, <3>1 DEF Latest
    <3>3. QED
      BY <1>1, <1>4, <1>8, <2>2, <3>1, <3>2 DEF IInv, ExecutorStateAgrees, Latest
  <2>3. CASE q.at = "done"
    BY <2>3
  <2>4. QED
    BY <1>5, <2>2, <2>3
<1>12. OpenCallsAreOwned'
  <2>1. SUFFICES ASSUME NEW k \in calls, k.st = "running"
                 PROVE  \/ status'[k.run] = "running" /\ gen'[k.run] = k.gen
                        \/ status'[k.run] = "aborted"
    BY <1>1 DEF OpenCallsAreOwned
  <2>2. k = OpenCall(k.run, k.gen) /\ k.run \in Runs
    BY <2>1 DEF TypeOK, Call, OpenCall
  <2>3. OpenCall(p.run, p.gen) \notin calls
    BY <1>1, <1>2 DEF IInv, ExecutorStateAgrees
  <2>4. k.run # p.run
    BY <1>2, <1>3, <2>1, <2>2, <2>3 DEF IInv, OpenCallsAreOwned
  <2>5. QED
    BY <1>4, <2>1, <2>2, <2>4 DEF IInv, OpenCallsAreOwned
<1>13. DiscardedCallsAreLast'
  <2>1. \A k \in calls : k.st = "discarded" => k.run # p.run /\ k.run \in Runs
    BY <1>3 DEF IInv, DiscardedCallsAreLast, Terminal, TypeOK, Call
  <2>2. QED
    BY <1>1, <1>4, <2>1 DEF IInv, DiscardedCallsAreLast
<1>14. QED
  BY <1>5, <1>9, <1>10, <1>11, <1>12, <1>13 DEF IInv

\* Nothing has been claimed, spawned or called initially.
LEMMA InitInv == Init => IInv
BY DEF Init, IInv, GenerationsAdvance, ClaimIsFresh, ExecutorStateAgrees,
   SingleExecutor, OpenCallsAreOwned, DiscardedCallsAreLast, Unspawned

\* A stuttering step keeps the invariant.
LEMMA StutterInv == IInv /\ UNCHANGED vars => IInv'
BY DEF IInv, GenerationsAdvance, ClaimIsFresh, ExecutorStateAgrees, SingleExecutor,
   OpenCallsAreOwned, DiscardedCallsAreLast, Unspawned, OpenCall, Latest, vars,
   runVars, supVars

\* Every step of the system keeps the inductive invariant.
LEMMA StepInv == TypeOK /\ IInv /\ [Next]_vars => IInv'
<1> SUFFICES ASSUME TypeOK, IInv, [Next]_vars PROVE IInv'
  OBVIOUS
<1>1. ASSUME NEW p \in procs, Execute(p) PROVE IInv'
  BY <1>1, ExecuteTypes, ExecutorEndInv, CallInv, BoundaryInv DEF Execute
<1>2. QED
  BY <1>1, RequestInv, SuperviseInv, EnvironmentInv, StutterInv DEF Next

\* The inductive invariant holds in every reachable state.
THEOREM Discipline == Spec => []IInv
BY TypeCorrect, InitInv, StepInv, PTL DEF Spec

\* Fencing: no generation of a run is ever executed by two processes.
THEOREM ExecutionIsExclusive == Spec => []SingleExecutor
<1>1. IInv => SingleExecutor
  BY DEF IInv
<1>2. QED
  BY <1>1, Discipline, PTL

\* A call that is stored as running is the current executor's, or its run was
\* aborted.
THEOREM OpenCallsHaveOwners == Spec => []OpenCallsAreOwned
<1>1. IInv => OpenCallsAreOwned
  BY DEF IInv
<1>2. QED
  BY <1>1, Discipline, PTL

\* A provider call that was interrupted is not made again: its run has ended and
\* its generation is the last one that called anything.
THEOREM NothingIsRepeated == Spec => []UncertainCallsAreNotRepeated
<1>1. TypeOK /\ IInv => UncertainCallsAreNotRepeated
  BY DEF TypeOK, Call, IInv, GenerationsAdvance, DiscardedCallsAreLast,
     UncertainCallsAreNotRepeated
<1>2. QED
  BY <1>1, TypeCorrect, Discipline, PTL

---------------------------------------------------------------------------
(* What no step may do: every write to a run looks at its status first.    *)

TerminalIsFrozen ==
  \A r \in Runs : status[r] \in Terminal =>
    /\ status'[r] = status[r]
    /\ gen'[r] = gen[r]
    /\ exec'[r] = exec[r]
    /\ Succeeded(r)' \subseteq Succeeded(r)

\* fail_execution never touches a finished run.
LEMMA FailFreezes ==
  ASSUME TypeOK, NEW c \in Claim, NEW only \in BOOLEAN, FailExecution(c, only)
  PROVE  TerminalIsFrozen
<1>1. CASE UNCHANGED runVars
  BY <1>1 DEF runVars, TerminalIsFrozen, Succeeded
<1>2. CASE MayFail(c, only)
  <2>1. c.run \in Runs /\ status[c.run] \notin Terminal
    BY <1>2 DEF Claim, MayFail, Terminal
  <2>2. \A r \in Runs : Succeeded(r)' \subseteq Succeeded(r)
    BY <1>2 DEF FailExecution, DiscardOpen, Succeeded
  <2>3. QED
    BY <1>2, <2>1, <2>2 DEF FailExecution, TypeOK, TerminalIsFrozen
<1>3. QED
  BY <1>1, <1>2 DEF FailExecution

\* No web request, supervisor, executor or crash touches a finished run.
LEMMA StepFreezes ==
  ASSUME TypeOK, [Next]_vars
  PROVE  TerminalIsFrozen
<1>1. ASSUME UNCHANGED <<status, gen, exec, calls>>
      PROVE  TerminalIsFrozen
  BY <1>1 DEF TerminalIsFrozen, Succeeded
<1>2. ASSUME NEW r \in Runs, Request(r)
      PROVE  TerminalIsFrozen
  BY <1>2 DEF Request, Start, Resubmit, Continue, Continuable, Abort, Active, Terminal,
     TypeOK, TerminalIsFrozen, Succeeded
<1>3. ASSUME NEW w \in Workers, Supervise(w)
      PROVE  TerminalIsFrozen
  <2>1. CASE ClaimRun(w)
    BY <2>1 DEF ClaimRun, MayClaim, Claimable, Terminal, TypeOK, TerminalIsFrozen,
       Succeeded
  <2>2. CASE ReapAct(w) \/ PollAct(w) \/ SpawnFail(w) \/ ExitOne(w)
    <3>1. UNCHANGED runVars \/ \E c \in Claim, only \in BOOLEAN : FailExecution(c, only)
      BY <2>2 DEF ReapAct, PollAct, SpawnFail, ExitOne, Fence, TypeOK
    <3>2. QED
      BY <1>1, <3>1, FailFreezes DEF runVars
  <2>3. CASE \/ Launch(w) \/ ReapRead(w) \/ ReapEnd(w) \/ PollRead(w) \/ PollEnd(w)
             \/ RenewRead(w) \/ RenewWrite(w) \/ BeatEnd(w) \/ SpawnOk(w)
             \/ ClaimEnd(w) \/ ExitEnd(w)
    BY <1>1, <2>3 DEF Launch, ReapRead, ReapEnd, PollRead, PollEnd, RenewRead,
       RenewWrite, BeatEnd, SpawnOk, ClaimEnd, ExitEnd, runVars
  <2>4. QED
    BY <1>3, <2>1, <2>2, <2>3 DEF Supervise
<1>4. ASSUME NEW p \in procs, Execute(p)
      PROVE  TerminalIsFrozen
  <2>1. p \in Process /\ ClaimOf(p) \in Claim
    BY DEF TypeOK, Process, ClaimOf, Claim
  <2>2. CASE Boot(p) \/ Error(p) \/ Quit(p)
    BY <1>1, <2>1, <2>2, FailFreezes DEF Boot, Error, Quit, runVars
  <2>3. CASE Reserve(p)
    BY <2>3 DEF Reserve, Record, Others, TerminalIsFrozen, Succeeded
  <2>4. CASE Answer(p)
    <3>1. UNCHANGED <<status, gen, exec>>
      BY <2>4 DEF Answer
    <3>2. \A k \in calls' : k.st = "success" =>
            k \in calls \/ (k.run = p.run /\ status[p.run] = "running")
      BY <2>4 DEF Answer, Current, Record, Others
    <3>3. QED
      BY <3>1, <3>2 DEF TerminalIsFrozen, Succeeded, Terminal
  <2>5. CASE Pause(p) \/ Conclude(p)
    BY <2>1, <2>5 DEF Pause, Conclude, Owns, Active, Terminal, Process, TypeOK,
       TerminalIsFrozen, Succeeded
  <2>6. QED
    BY <1>4, <2>2, <2>3, <2>4, <2>5 DEF Execute
<1>5. CASE Environment
  BY <1>1, <1>5 DEF Environment, Tick, StopSignal, TerminalInterrupt, LoopError,
     Crash, ChildCrash, runVars
<1>6. CASE UNCHANGED vars
  BY <1>1, <1>6 DEF vars, runVars
<1>7. QED
  BY <1>2, <1>3, <1>4, <1>5, <1>6 DEF Next

\* A finished run is never reopened, re-fenced or given a late result.
THEOREM FinishedRunsAreFinal == Spec => FinishedStaysFinished
<1>1. TypeOK /\ [Next]_vars => [TerminalIsFrozen]_vars
  BY StepFreezes
<1>2. TerminalIsFrozen <=> (\A r \in Runs : status[r] \in Terminal =>
         /\ status'[r] = status[r]
         /\ gen'[r] = gen[r]
         /\ exec'[r] = exec[r]
         /\ Succeeded(r)' \subseteq Succeeded(r))
  BY DEF TerminalIsFrozen
<1>3. QED
  BY <1>1, <1>2, TypeCorrect, PTL DEF Spec, FinishedStaysFinished

---------------------------------------------------------------------------
(* Capacity.  With renewals that write by the clock reading they have just *)
(* taken, only claim_execution brings a live lease into being, and it      *)
(* counts them all before it does.                                         *)

\* Live leases are counted among finitely many runs.
LEMMA LeasedIsFinite ==
  IsFiniteSet(Leased) /\ Cardinality(Leased) \in Nat
BY FinitenessAssumption, FS_Subset, FS_CardinalityType DEF Leased

\* Fewer live leases never exceed a capacity that more respected.
LEMMA FewerLeases ==
  ASSUME CapacityRespected, Leased' \subseteq Leased
  PROVE  CapacityRespected'
<1>1. /\ IsFiniteSet(Leased') /\ Cardinality(Leased') \in Nat
      /\ Cardinality(Leased') <= Cardinality(Leased)
  BY LeasedIsFinite, FS_Subset, FS_CardinalityType
<1>2. QED
  BY <1>1, LeasedIsFinite, ConstantsAssumption DEF CapacityRespected

\* A claim adds one lease where there was room for one.
LEMMA ClaimFits ==
  ASSUME TypeOK, NEW w \in Workers, ClaimRun(w)
  PROVE  CapacityRespected'
<1>1. PICK r \in Runs : PoolFree(w) /\ lease' = [lease EXCEPT ![r] = LeaseTicks]
  BY DEF ClaimRun, MayClaim
<1>2. Leased' \subseteq Leased \union {r}
  BY <1>1 DEF ClaimRun, Leased, TypeOK
<1>3. /\ IsFiniteSet(Leased \union {r})
      /\ Cardinality(Leased \union {r}) \in Nat
      /\ Cardinality(Leased \union {r}) <= Cardinality(Leased) + 1
  <2>1. IsFiniteSet(Leased \union {r})
    BY LeasedIsFinite, FS_AddElement
  <2>2. Cardinality(Leased \union {r}) =
          IF r \in Leased THEN Cardinality(Leased) ELSE Cardinality(Leased) + 1
    BY LeasedIsFinite, FS_AddElement
  <2>3. QED
    BY LeasedIsFinite, <2>1, <2>2
<1>4. /\ Cardinality(Leased') \in Nat
      /\ Cardinality(Leased') <= Cardinality(Leased \union {r})
  BY <1>2, <1>3, FS_Subset, FS_CardinalityType
<1>5. Cardinality(Leased) + 1 <= MaxExecutions
  BY <1>1, LeasedIsFinite, ConstantsAssumption DEF PoolFree
<1>6. QED
  BY <1>3, <1>4, <1>5, LeasedIsFinite, ConstantsAssumption DEF CapacityRespected

\* fail_execution takes a lease away.
LEMMA FailFreesLease ==
  ASSUME TypeOK, MaxRenewDelay = 0, NEW c \in Claim, NEW only \in BOOLEAN,
         FailExecution(c, only)
  PROVE  Leased' \subseteq Leased
BY DEF FailExecution, Leased, Expired, TypeOK, Claim, runVars

\* No step but a claim makes a lease live.
LEMMA OtherStepsAddNoLease ==
  ASSUME TypeOK, IInv, MaxRenewDelay = 0, [Next]_vars, \A w \in Workers : ~ClaimRun(w)
  PROVE  Leased' \subseteq Leased
<1>1. ASSUME UNCHANGED <<status, lease>> PROVE Leased' \subseteq Leased
  BY <1>1 DEF Leased
<1>2. ASSUME NEW r \in Runs, Request(r) PROVE Leased' \subseteq Leased
  <2>1. CASE Start(r)
    BY <2>1 DEF Start, Dispatch, Leased, Expired, IInv, GenerationsAdvance, TypeOK
  <2>2. CASE Resubmit(r)
    BY <2>2 DEF Resubmit, Dispatch, Leased, Expired, TypeOK
  <2>3. CASE Continue(r)
    <3>1. exec[r] # NextGeneration(r)
      BY <2>3 DEF Continue, Continuable, NextGeneration, IInv, GenerationsAdvance, TypeOK
    <3>2. lease' = [lease EXCEPT ![r] = 0]
      BY <2>3, <3>1 DEF Continue, Dispatch, Expired
    <3>3. QED
      BY <2>3, <3>2 DEF Continue, Leased, TypeOK
  <2>4. CASE Abort(r)
    BY <2>4 DEF Abort, Leased, TypeOK
  <2>5. QED
    BY <1>2, <2>1, <2>2, <2>3, <2>4 DEF Request
<1>3. ASSUME NEW w \in Workers, Supervise(w) PROVE Leased' \subseteq Leased
  <2>1. CASE RenewWrite(w)
    <3>1. ago[w] = 0
      BY DEF TypeOK
    <3>2. PICK c \in cur[w] :
            \/ /\ status[c.run] = "running" /\ lease[c.run] + ago[w] > 0
               /\ lease' = [lease EXCEPT ![c.run] = LeaseTicks - ago[w]]
            \/ UNCHANGED lease
      BY <2>1 DEF RenewWrite, MayFail, RenewedLease
    <3>3. c.run \in Runs
      BY DEF TypeOK, Claim
    <3>4. UNCHANGED status
      BY <2>1 DEF RenewWrite
    <3>5. QED
      BY <3>1, <3>2, <3>3, <3>4, ConstantsAssumption DEF Leased, TypeOK
  <2>2. CASE ReapAct(w) \/ PollAct(w) \/ SpawnFail(w) \/ ExitOne(w)
    <3>1. UNCHANGED runVars \/ \E c \in Claim, only \in BOOLEAN : FailExecution(c, only)
      BY <2>2 DEF ReapAct, PollAct, SpawnFail, ExitOne, Fence, TypeOK
    <3>2. QED
      BY <1>1, <3>1, FailFreesLease DEF runVars
  <2>3. CASE \/ Launch(w) \/ ReapRead(w) \/ ReapEnd(w) \/ PollRead(w) \/ PollEnd(w)
             \/ RenewRead(w) \/ BeatEnd(w) \/ SpawnOk(w) \/ ClaimEnd(w) \/ ExitEnd(w)
    BY <1>1, <2>3 DEF Launch, ReapRead, ReapEnd, PollRead, PollEnd, RenewRead,
       BeatEnd, SpawnOk, ClaimEnd, ExitEnd, runVars
  <2>4. QED
    BY <1>3, <2>1, <2>2, <2>3 DEF Supervise
<1>4. ASSUME NEW p \in procs, Execute(p) PROVE Leased' \subseteq Leased
  <2>1. p \in Process /\ ClaimOf(p) \in Claim
    BY DEF TypeOK, Process, ClaimOf, Claim
  <2>2. CASE Boot(p) \/ Error(p) \/ Quit(p)
    BY <1>1, <2>1, <2>2, FailFreesLease DEF Boot, Error, Quit, runVars
  <2>3. CASE Reserve(p) \/ Answer(p)
    BY <1>1, <2>3 DEF Reserve, Answer
  <2>4. CASE Pause(p) \/ Conclude(p)
    BY <2>1, <2>4 DEF Pause, Conclude, Leased, Process, TypeOK
  <2>5. QED
    BY <1>4, <2>2, <2>3, <2>4 DEF Execute
<1>5. CASE Tick
  BY <1>5 DEF Tick, Leased, Expired, TypeOK
<1>6. CASE Environment /\ ~Tick
  BY <1>1, <1>6 DEF Environment, StopSignal, TerminalInterrupt, LoopError,
     Crash, ChildCrash, runVars
<1>7. CASE UNCHANGED vars
  BY <1>1, <1>7 DEF vars, runVars
<1>8. QED
  BY <1>2, <1>3, <1>4, <1>5, <1>6, <1>7 DEF Next

\* At most MAX_EXECUTIONS runs hold a live lease, provided that no lease runs
\* out between the clock reading and the UPDATE of its renewal.
THEOREM PunctualRenewalsRespectCapacity ==
  ASSUME MaxRenewDelay = 0
  PROVE  Spec => []CapacityRespected
<1>1. Init => CapacityRespected
  <2>1. Init => Leased = {}
    BY DEF Init, Leased
  <2>2. QED
    BY <2>1, FS_EmptySet, ConstantsAssumption DEF CapacityRespected
<1>2. TypeOK /\ IInv /\ CapacityRespected /\ [Next]_vars => CapacityRespected'
  BY ClaimFits, OtherStepsAddNoLease, FewerLeases
<1>3. QED
  BY <1>1, <1>2, TypeCorrect, Discipline, PTL DEF Spec

---------------------------------------------------------------------------
(* The dispatch contract.  A step of the runtime moves the phase of one    *)
(* run, or of none.                                                        *)

\* A row that keeps status and generations keeps its phase.
LEMMA PhaseIsKept ==
  ASSUME UNCHANGED <<status, gen, exec>>
  PROVE  UNCHANGED Contract!contractVars
BY DEF Contract!contractVars, Phase

\* A step that touches one run moves the phase of that run alone.
LEMMA OnePhaseMoves ==
  ASSUME NEW r \in Runs,
         \A q \in Runs \ {r} : /\ status'[q] = status[q]
                               /\ gen'[q] = gen[q]
                               /\ exec'[q] = exec[q]
  PROVE  [q \in Runs |-> Phase(q)]' = [[q \in Runs |-> Phase(q)] EXCEPT ![r] = Phase(r)']
<1>1. \A q \in Runs \ {r} : Phase(q)' = Phase(q)
  BY DEF Phase
<1>2. QED
  BY <1>1

\* fail_execution finishes a run that is executing, or does nothing.
LEMMA FailFinishes ==
  ASSUME TypeOK, NEW c \in Claim, NEW only \in BOOLEAN, FailExecution(c, only)
  PROVE  [Contract!Next]_(Contract!contractVars)
<1>1. CASE UNCHANGED runVars
  BY <1>1, PhaseIsKept DEF runVars
<1>2. CASE MayFail(c, only)
  <2>1. c.run \in Runs
    BY DEF Claim
  <2>2. Phase(c.run) = "executing" /\ Phase(c.run)' = "failed" /\ exec' = exec
    BY <1>2, <2>1 DEF FailExecution, MayFail, Phase, TypeOK
  <2>3. \A q \in Runs \ {c.run} : /\ status'[q] = status[q]
                                  /\ gen'[q] = gen[q]
                                  /\ exec'[q] = exec[q]
    BY <1>2, <2>1 DEF FailExecution, TypeOK
  <2>4. Contract!Finish(c.run)
    BY <2>1, <2>2, <2>3, OnePhaseMoves DEF Contract!Finish, Contract!Move
  <2>5. QED
    BY <2>1, <2>4 DEF Contract!Next
<1>3. QED
  BY <1>1, <1>2 DEF FailExecution

\* A start queues a run, an answer queues it again, an abort withdraws it; a
\* start that is posted again changes nothing.
LEMMA RequestMoves ==
  ASSUME TypeOK, IInv, NEW r \in Runs, Request(r)
  PROVE  [Contract!Next]_(Contract!contractVars)
<1>1. /\ exec' = exec
      /\ \A q \in Runs \ {r} : /\ status'[q] = status[q]
                               /\ gen'[q] = gen[q]
                               /\ exec'[q] = exec[q]
  BY DEF Request, Start, Resubmit, Continue, Abort, TypeOK
<1>2. CASE Start(r)
  <2>1. Phase(r) = "new" /\ Phase(r)' = "queued"
    BY <1>2 DEF Start, Phase, IInv, GenerationsAdvance, TypeOK
  <2>2. Contract!Submit(r)
    BY <1>1, <2>1, OnePhaseMoves DEF Contract!Submit, Contract!Move
  <2>3. QED
    BY <2>2 DEF Contract!Next
<1>3. CASE Resubmit(r)
  BY <1>3, PhaseIsKept DEF Resubmit
<1>4. CASE Continue(r)
  <2>1. Phase(r) = "paused" /\ Phase(r)' = "queued"
    BY <1>4 DEF Continue, Continuable, NextGeneration, Phase, IInv, GenerationsAdvance, TypeOK
  <2>2. Contract!Reply(r)
    BY <1>1, <2>1, OnePhaseMoves DEF Contract!Reply, Contract!Move
  <2>3. QED
    BY <2>2 DEF Contract!Next
<1>5. CASE Abort(r)
  <2>1. Phase(r) \in {"queued", "executing", "paused"} /\ Phase(r)' = "aborted"
    BY <1>5 DEF Abort, Active, Phase, TypeOK
  <2>2. Contract!Withdraw(r)
    BY <1>1, <2>1, OnePhaseMoves DEF Contract!Withdraw, Contract!Move
  <2>3. QED
    BY <2>2 DEF Contract!Next
<1>6. QED
  BY <1>2, <1>3, <1>4, <1>5 DEF Request

\* A claim takes a queued run and begins its next execution.
LEMMA ClaimTakes ==
  ASSUME TypeOK, IInv, NEW w \in Workers, ClaimRun(w)
  PROVE  [Contract!Next]_(Contract!contractVars)
<1>1. PICK r \in Runs : /\ status[r] = "running" /\ exec[r] # gen[r]
                        /\ exec' = [exec EXCEPT ![r] = gen[r]]
  BY DEF ClaimRun, MayClaim, Claimable
<1>2. UNCHANGED <<status, gen>>
  BY DEF ClaimRun
<1>3. gen[r] = exec[r] + 1
  BY <1>1 DEF IInv, GenerationsAdvance, TypeOK
<1>4. Phase(r) = "queued" /\ Phase(r)' = "executing"
  BY <1>1, <1>2 DEF Phase, TypeOK
<1>5. \A q \in Runs \ {r} : /\ status'[q] = status[q]
                            /\ gen'[q] = gen[q]
                            /\ exec'[q] = exec[q]
  BY <1>1, <1>2 DEF TypeOK
<1>6. Contract!Take(r)
  BY <1>1, <1>3, <1>4, <1>5, OnePhaseMoves DEF Contract!Take, TypeOK
<1>7. QED
  BY <1>6 DEF Contract!Next

\* The owner of a generation clarifies or finishes a run that is executing.
LEMMA BoundaryMoves ==
  ASSUME TypeOK, IInv, NEW p \in procs, Pause(p) \/ Conclude(p)
  PROVE  [Contract!Next]_(Contract!contractVars)
<1>1. p.run \in Runs /\ p.gen = gen[p.run] /\ gen[p.run] = exec[p.run]
  BY DEF Pause, Conclude, Owns, TypeOK, Process, IInv, GenerationsAdvance
<1>2. status[p.run] = "running"
  BY <1>1 DEF Pause, Conclude, Owns, Active, Terminal, IInv, ExecutorStateAgrees, Latest
<1>3. Phase(p.run) = "executing"
  BY <1>1, <1>2 DEF Phase
<1>4. /\ exec' = exec
      /\ \A q \in Runs \ {p.run} : /\ status'[q] = status[q]
                                   /\ gen'[q] = gen[q]
                                   /\ exec'[q] = exec[q]
  BY <1>1 DEF Pause, Conclude, TypeOK
<1>5. CASE Pause(p)
  <2>1. Phase(p.run)' = "paused"
    BY <1>1, <1>5 DEF Pause, Phase, TypeOK
  <2>2. Contract!Clarify(p.run)
    BY <1>1, <1>3, <1>4, <2>1, OnePhaseMoves DEF Contract!Clarify, Contract!Move
  <2>3. QED
    BY <1>1, <2>2 DEF Contract!Next
<1>6. CASE Conclude(p)
  <2>1. Phase(p.run)' \in {"ready", "failed"}
    BY <1>1, <1>6 DEF Conclude, Phase, TypeOK
  <2>2. Contract!Finish(p.run)
    BY <1>1, <1>3, <1>4, <2>1, OnePhaseMoves DEF Contract!Finish, Contract!Move
  <2>3. QED
    BY <1>1, <2>2 DEF Contract!Next
<1>7. QED
  BY <1>5, <1>6

\* Every step is a step of the contract or leaves the phases alone.
LEMMA StepImplements ==
  ASSUME TypeOK, IInv, [Next]_vars
  PROVE  [Contract!Next]_(Contract!contractVars)
<1>1. ASSUME NEW w \in Workers, Supervise(w)
      PROVE  [Contract!Next]_(Contract!contractVars)
  <2>1. CASE ClaimRun(w)
    BY <2>1, ClaimTakes
  <2>2. CASE ReapAct(w) \/ PollAct(w) \/ SpawnFail(w) \/ ExitOne(w)
    <3>1. UNCHANGED runVars \/ \E c \in Claim, only \in BOOLEAN : FailExecution(c, only)
      BY <2>2 DEF ReapAct, PollAct, SpawnFail, ExitOne, Fence, TypeOK
    <3>2. QED
      BY <3>1, PhaseIsKept, FailFinishes DEF runVars
  <2>3. CASE \/ Launch(w) \/ ReapRead(w) \/ ReapEnd(w) \/ PollRead(w) \/ PollEnd(w)
             \/ RenewRead(w) \/ RenewWrite(w) \/ BeatEnd(w) \/ SpawnOk(w)
             \/ ClaimEnd(w) \/ ExitEnd(w)
    <3>1. UNCHANGED <<status, gen, exec>>
      BY <2>3 DEF Launch, ReapRead, ReapEnd, PollRead, PollEnd, RenewRead, RenewWrite,
         BeatEnd, SpawnOk, ClaimEnd, ExitEnd, runVars
    <3>2. QED
      BY <3>1, PhaseIsKept
  <2>4. QED
    BY <1>1, <2>1, <2>2, <2>3 DEF Supervise
<1>2. ASSUME NEW p \in procs, Execute(p)
      PROVE  [Contract!Next]_(Contract!contractVars)
  <2>1. ClaimOf(p) \in Claim
    BY DEF TypeOK, Process, ClaimOf, Claim
  <2>2. CASE Boot(p) \/ Error(p) \/ Quit(p)
    BY <2>1, <2>2, PhaseIsKept, FailFinishes DEF Boot, Error, Quit, runVars
  <2>3. CASE Reserve(p) \/ Answer(p)
    BY <2>3, PhaseIsKept DEF Reserve, Answer
  <2>4. CASE Pause(p) \/ Conclude(p)
    BY <2>4, BoundaryMoves
  <2>5. QED
    BY <1>2, <2>2, <2>3, <2>4 DEF Execute
<1>3. CASE Environment
  BY <1>3, PhaseIsKept DEF Environment, Tick, StopSignal, TerminalInterrupt, LoopError,
     Crash, ChildCrash, runVars
<1>4. CASE UNCHANGED vars
  BY <1>4, PhaseIsKept DEF vars, runVars
<1>5. QED
  BY <1>1, <1>2, <1>3, <1>4, RequestMoves DEF Next

\* The runtime implements the dispatch contract: a run is executed at most once
\* per start or answer, and an execution that breaks off ends it.
THEOREM RuntimeImplementsContract == Spec => ImplementsContract
<1>1. Init => Contract!Init
  BY DEF Init, Phase, Contract!Init
<1>2. TypeOK /\ IInv /\ [Next]_vars => [Contract!Next]_(Contract!contractVars)
  BY StepImplements
<1>3. QED
  BY <1>1, <1>2, TypeCorrect, Discipline, PTL DEF Spec, ImplementsContract, Contract!Spec

---------------------------------------------------------------------------
(* Who watches a claim.  A supervisor knows every claim it holds: in its   *)
(* dict, in its hands while it spawns the process, or on the list of its   *)
(* finally clause.  Only claiming makes a claim, so every other step of    *)
(* anybody leaves the claims of a supervisor or takes some away.           *)

Claimed(r)    == status[r] = "running" /\ exec[r] = gen[r]
Holds(w, r)   == Claimed(r) /\ worker[r] = w
HeldClaim(w, r) == [run |-> r, gen |-> gen[r], worker |-> w]
Outdated(c)   == ~(Claimed(c.run) /\ c.gen = gen[c.run])

OffIsNew(w) == pc[w] = "off" => \A r \in Runs : worker[r] # w

KnowsOwnOnly(w) ==
  /\ \A c \in children[w] \union cur[w] : c.worker = w
  /\ \A c, d \in cur[w] : c = d
  /\ pc[w] # "reaping" => \A c \in todo[w] : c.worker = w

KnowsPast(w) == \A c \in children[w] \union cur[w] \union todo[w] : c.gen <= exec[c.run]

LoopKnows(w) ==
  Looping(w) => \A r \in Runs : Holds(w, r) =>
    HeldClaim(w, r) \in children[w] \/ (pc[w] = "spawn" /\ HeldClaim(w, r) \in cur[w])

StaleIsStale(w) == pc[w] = "polled" /\ stale[w] => \A c \in cur[w] : Outdated(c)

ExitKnows(w) ==
  "unfenced" \notin Faults => \A r \in Runs : Holds(w, r) =>
    /\ pc[w] = "exit" => HeldClaim(w, r) \in todo[w]
    /\ pc[w] # "gone"

Knows(w) ==
  /\ OffIsNew(w) /\ KnowsOwnOnly(w) /\ KnowsPast(w)
  /\ LoopKnows(w) /\ StaleIsStale(w) /\ ExitKnows(w)

Watching == \A w \in Workers : Knows(w)

\* Nobody gets a claim by the step.
NoNewClaims ==
  /\ exec' = exec
  /\ \A r \in Runs : /\ Claimed(r)' => Claimed(r) /\ gen'[r] = gen[r]
                     /\ worker'[r] \in {worker[r], NoWorker}

\* fail_execution makes no claim.
LEMMA FailClaimsNothing ==
  ASSUME TypeOK, NEW c \in Claim, NEW only \in BOOLEAN, FailExecution(c, only)
  PROVE  NoNewClaims
<1>1. CASE UNCHANGED runVars
  BY <1>1 DEF runVars, NoNewClaims, Claimed
<1>2. CASE MayFail(c, only)
  <2>1. c.run \in Runs
    BY DEF Claim
  <2>2. /\ status' = [status EXCEPT ![c.run] = "failed"]
        /\ gen' = [gen EXCEPT ![c.run] = @ + 1] /\ UNCHANGED <<exec, worker>>
    BY <1>2 DEF FailExecution
  <2>3. QED
    BY <2>1, <2>2 DEF NoNewClaims, Claimed, TypeOK
<1>3. QED
  BY <1>1, <1>2 DEF FailExecution

\* Web requests, executors and the environment make no claim and leave the
\* supervisors' lists alone, but for the crash of a supervisor or an exception.
LEMMA OthersClaimNothing ==
  ASSUME TypeOK, IInv,
         \/ \E r \in Runs : Request(r)
         \/ \E p \in procs : Execute(p) \/ ChildCrash(p)
         \/ \E w \in Workers : StopSignal(w) \/ TerminalInterrupt(w)
         \/ Tick \/ UNCHANGED vars
  PROVE  NoNewClaims /\ UNCHANGED <<pc, todo, cur, stale, children>>
<1>1. ASSUME UNCHANGED <<status, gen, exec, worker>> PROVE NoNewClaims
  BY <1>1 DEF NoNewClaims, Claimed
<1>2. ASSUME NEW r \in Runs, Request(r)
      PROVE  NoNewClaims /\ UNCHANGED supVars
  <2>1. UNCHANGED supVars /\ exec' = exec
    BY <1>2 DEF Request, Start, Resubmit, Continue, Abort
  <2>2. worker' = worker \/ worker' = [worker EXCEPT ![r] = NoWorker]
    BY <1>2 DEF Request, Start, Resubmit, Continue, Abort, Dispatch
  <2>3. \A q \in Runs : worker'[q] \in {worker[q], NoWorker}
    BY <2>2 DEF TypeOK
  <2>4. /\ status[r] = "none" => exec[r] = 0 /\ gen[r] = 1
        /\ status[r] = "waiting_human" => gen[r] = exec[r]
        /\ gen[r] \in Nat /\ exec[r] \in Nat
    BY DEF IInv, GenerationsAdvance, TypeOK
  <2>5. \A q \in Runs : Claimed(q)' => Claimed(q) /\ gen'[q] = gen[q]
    <3>1. CASE Start(r)
      BY <2>4, <3>1 DEF Start, Claimed, TypeOK
    <3>2. CASE Resubmit(r)
      BY <3>2 DEF Resubmit, Claimed
    <3>3. CASE Continue(r)
      BY <2>4, <3>3 DEF Continue, Continuable, NextGeneration, Claimed, TypeOK
    <3>4. CASE Abort(r)
      BY <3>4 DEF Abort, Claimed, TypeOK
    <3>5. QED
      BY <1>2, <3>1, <3>2, <3>3, <3>4 DEF Request
  <2>6. QED
    BY <2>1, <2>3, <2>5 DEF NoNewClaims
<1>3. ASSUME NEW p \in procs, Execute(p)
      PROVE  NoNewClaims /\ UNCHANGED supVars
  <2>1. p \in Process /\ p.run \in Runs /\ ClaimOf(p) \in Claim
    BY DEF TypeOK, Process, ClaimOf, Claim
  <2>2. CASE Boot(p) \/ Error(p) \/ Quit(p)
    <3>1. (UNCHANGED runVars \/ FailExecution(ClaimOf(p), FALSE)) /\ UNCHANGED supVars
      BY <2>2 DEF Boot, Error, Quit
    <3>2. QED
      BY <1>1, <2>1, <3>1, FailClaimsNothing DEF runVars
  <2>3. CASE Reserve(p) \/ Answer(p)
    BY <1>1, <2>3 DEF Reserve, Answer
  <2>4. CASE Pause(p) \/ Conclude(p)
    <3>1. /\ UNCHANGED <<exec, worker>> /\ UNCHANGED supVars
          /\ \A q \in Runs \ {p.run} : status'[q] = status[q] /\ gen'[q] = gen[q]
          /\ status'[p.run] \in {"waiting_human", "ready", "failed"}
      BY <2>1, <2>4 DEF Pause, Conclude, TypeOK
    <3>2. QED
      BY <3>1 DEF NoNewClaims, Claimed
  <2>5. QED
    BY <1>3, <2>2, <2>3, <2>4 DEF Execute
<1>4. ASSUME \/ \E p \in procs : ChildCrash(p)
             \/ \E w \in Workers : StopSignal(w) \/ TerminalInterrupt(w)
             \/ Tick \/ UNCHANGED vars
      PROVE  NoNewClaims /\ UNCHANGED <<pc, todo, cur, stale, children>>
  BY <1>1, <1>4 DEF ChildCrash, StopSignal, TerminalInterrupt, Tick, vars, runVars, supVars
<1>5. QED
  BY <1>2, <1>3, <1>4 DEF supVars

\* What a claim was past, and what is outdated, remains so.
LEMMA ClaimsPass ==
  ASSUME TypeOK, NoNewClaims, NEW c \in Claim
  PROVE  /\ c.gen <= exec[c.run] => c.gen <= exec'[c.run]
         /\ Outdated(c) => Outdated(c)'
<1>1. c.run \in Runs
  BY DEF Claim
<1>2. QED
  BY <1>1 DEF NoNewClaims, Outdated, Claimed

\* What a supervisor holds after such a step it has held before.
LEMMA HoldsPass ==
  ASSUME TypeOK, NoNewClaims, NEW w \in Workers, NEW r \in Runs
  PROVE  /\ Holds(w, r)' => Holds(w, r) /\ HeldClaim(w, r)' = HeldClaim(w, r)
         /\ worker'[r] = w => worker[r] = w
BY ConstantsAssumption DEF NoNewClaims, Holds, HeldClaim

\* A supervisor that is left alone keeps knowing its claims.
LEMMA LeftAloneKnows ==
  ASSUME TypeOK, NoNewClaims, NEW w \in Workers, Knows(w),
         pc'[w] = pc[w], todo'[w] = todo[w], cur'[w] = cur[w], stale'[w] = stale[w],
         children'[w] = children[w]
  PROVE  Knows(w)'
<1>1. \A c \in children[w] \union cur[w] \union todo[w] : c \in Claim
  BY DEF TypeOK
<1>2. OffIsNew(w)' /\ KnowsOwnOnly(w)'
  BY HoldsPass DEF Knows, OffIsNew, KnowsOwnOnly
<1>3. KnowsPast(w)'
  BY <1>1, ClaimsPass DEF Knows, KnowsPast
<1>4. StaleIsStale(w)'
  <2>1. SUFFICES ASSUME pc'[w] = "polled", stale'[w], NEW c \in cur'[w] PROVE Outdated(c)'
    BY DEF StaleIsStale, Outdated, Claimed
  <2>2. c \in cur[w] /\ Outdated(c) /\ c \in Claim
    BY <1>1, <2>1 DEF Knows, StaleIsStale
  <2>3. QED
    BY <2>2, ClaimsPass
<1>5. LoopKnows(w)'
  <2>1. SUFFICES ASSUME Looping(w)', NEW r \in Runs, Holds(w, r)'
                 PROVE  \/ HeldClaim(w, r)' \in children'[w]
                        \/ pc'[w] = "spawn" /\ HeldClaim(w, r)' \in cur'[w]
    BY DEF LoopKnows, Holds, HeldClaim, Claimed
  <2>2. Looping(w)
    BY <2>1 DEF Looping
  <2>3. Holds(w, r) /\ HeldClaim(w, r)' = HeldClaim(w, r)
    BY <2>1, HoldsPass
  <2>4. QED
    BY <2>2, <2>3 DEF Knows, LoopKnows
<1>6. ExitKnows(w)'
  <2>1. SUFFICES ASSUME "unfenced" \notin Faults, NEW r \in Runs, Holds(w, r)'
                 PROVE  /\ pc'[w] = "exit" => HeldClaim(w, r)' \in todo'[w]
                        /\ pc'[w] # "gone"
    BY DEF ExitKnows, Holds, HeldClaim, Claimed
  <2>2. Holds(w, r) /\ HeldClaim(w, r)' = HeldClaim(w, r)
    BY <2>1, HoldsPass
  <2>3. QED
    BY <2>1, <2>2 DEF Knows, ExitKnows
<1>7. QED
  BY <1>2, <1>3, <1>4, <1>5, <1>6 DEF Knows

\* A supervisor in its loop that neither claims nor forgets keeps knowing its
\* claims, whatever list it takes up.
LEMMA LoopingKnows ==
  ASSUME TypeOK, NoNewClaims, NEW w \in Workers, Knows(w),
         Looping(w), Looping(w)', pc[w] # "spawn", children'[w] = children[w],
         \A c \in cur'[w] : c.worker = w /\ c.gen <= exec'[c.run],
         \A c, d \in cur'[w] : c = d,
         \A c \in todo'[w] : c.gen <= exec'[c.run] /\ (pc'[w] # "reaping" => c.worker = w),
         pc'[w] = "polled" /\ stale'[w] => \A c \in cur'[w] : Outdated(c)'
  PROVE  Knows(w)'
<1>1. OffIsNew(w)' /\ ExitKnows(w)'
  BY DEF Looping, OffIsNew, ExitKnows
<1>2. KnowsOwnOnly(w)'
  BY DEF Knows, KnowsOwnOnly
<1>3. KnowsPast(w)'
  <2>1. \A c \in children[w] : c \in Claim /\ c.gen <= exec[c.run]
    BY DEF TypeOK, Knows, KnowsPast
  <2>2. QED
    BY <2>1, ClaimsPass DEF KnowsPast
<1>4. StaleIsStale(w)'
  BY DEF StaleIsStale, Outdated, Claimed
<1>5. LoopKnows(w)'
  <2>1. SUFFICES ASSUME NEW r \in Runs, Holds(w, r)'
                 PROVE  HeldClaim(w, r)' \in children'[w]
    BY DEF LoopKnows, Holds, HeldClaim, Claimed
  <2>2. Holds(w, r) /\ HeldClaim(w, r)' = HeldClaim(w, r)
    BY <2>1, HoldsPass
  <2>3. QED
    BY <2>2 DEF Knows, LoopKnows
<1>6. QED
  BY <1>1, <1>2, <1>3, <1>4, <1>5 DEF Knows

\* Such are the steps of the loop that only look, renew or reap.
LEMMA LookingKnows ==
  ASSUME TypeOK, NEW w \in Workers, Knows(w),
         \/ ReapRead(w) \/ ReapAct(w) \/ ReapEnd(w) \/ PollRead(w) \/ PollEnd(w)
         \/ RenewRead(w) \/ RenewWrite(w) \/ BeatEnd(w)
         \/ (ClaimEnd(w) /\ ~LoopDone(w))
  PROVE  Knows(w)' /\ NoNewClaims
<1>0. /\ \A c \in children[w] : c.worker = w /\ c.gen <= exec[c.run] /\ c \in Claim
      /\ \A c \in cur[w] : c.worker = w /\ c.gen <= exec[c.run] /\ c \in Claim
      /\ \A c, d \in cur[w] : c = d
      /\ \A c \in todo[w] : c.gen <= exec[c.run] /\ c \in Claim
      /\ pc[w] # "reaping" => \A c \in todo[w] : c.worker = w
  BY DEF Knows, KnowsOwnOnly, KnowsPast, TypeOK
<1>1. ASSUME UNCHANGED <<status, gen, exec, worker>> PROVE NoNewClaims
  BY <1>1 DEF NoNewClaims, Claimed
<1>2. CASE ReapRead(w)
  <2>1. NoNewClaims /\ exec' = exec
    BY <1>1, <1>2 DEF ReapRead, runVars
  <2>2. todo'[w] = Orphans /\ cur' = cur /\ children' = children /\ stale' = stale
    BY <1>2 DEF ReapRead, TypeOK
  <2>3. pc[w] = "reap" /\ pc'[w] = "reaping"
    BY <1>2 DEF ReapRead, Goto, TypeOK
  <2>4. \A c \in Orphans : c.gen <= exec[c.run]
    BY DEF Orphans, TypeOK
  <2>5. QED
    BY <1>0, <2>1, <2>2, <2>3, <2>4, LoopingKnows DEF Looping
<1>3. CASE ReapAct(w)
  <2>1. NoNewClaims
    BY <1>0, <1>3, FailClaimsNothing DEF ReapAct
  <2>2. exec' = exec /\ todo'[w] \subseteq todo[w] /\ cur' = cur /\ children' = children
    BY <1>3, <2>1 DEF ReapAct, TypeOK, NoNewClaims
  <2>3. pc[w] = "reaping" /\ pc' = pc
    BY <1>3 DEF ReapAct
  <2>4. QED
    BY <1>0, <2>1, <2>2, <2>3, LoopingKnows DEF Looping
<1>4. CASE ReapEnd(w)
  <2>1. NoNewClaims /\ exec' = exec
    BY <1>1, <1>4 DEF ReapEnd, runVars
  <2>2. todo'[w] = children[w] /\ cur' = cur /\ children' = children
    BY <1>4 DEF ReapEnd, TypeOK
  <2>3. pc[w] = "reaping" /\ pc'[w] = "poll"
    BY <1>4 DEF ReapEnd, Goto, TypeOK
  <2>4. QED
    BY <1>0, <2>1, <2>2, <2>3, LoopingKnows DEF Looping
<1>5. CASE PollRead(w)
  <2>1. NoNewClaims /\ exec' = exec
    BY <1>1, <1>5 DEF PollRead, runVars
  <2>2. PICK c \in todo[w] :
          /\ cur' = [cur EXCEPT ![w] = {c}] /\ todo' = [todo EXCEPT ![w] = @ \ {c}]
          /\ stale' = [stale EXCEPT ![w] = status[c.run] # "running" \/ gen[c.run] # c.gen]
    BY <1>5 DEF PollRead
  <2>3. /\ cur'[w] = {c} /\ todo'[w] \subseteq todo[w] /\ children' = children
        /\ stale'[w] = (status[c.run] # "running" \/ gen[c.run] # c.gen)
    BY <1>5, <2>2 DEF PollRead, TypeOK
  <2>4. pc[w] = "poll" /\ pc'[w] = "polled"
    BY <1>5 DEF PollRead, Goto, TypeOK
  <2>5. stale'[w] => Outdated(c)
    BY <2>3 DEF Outdated, Claimed
  <2>6. stale'[w] => \A d \in cur'[w] : Outdated(d)'
    BY <1>0, <2>1, <2>3, <2>5, ClaimsPass
  <2>7. QED
    BY <1>0, <2>1, <2>3, <2>4, <2>6, LoopingKnows DEF Looping
<1>6. CASE PollEnd(w)
  <2>1. NoNewClaims /\ exec' = exec
    BY <1>1, <1>6 DEF PollEnd, runVars
  <2>2. todo'[w] \in {todo[w], children[w]} /\ cur' = cur /\ children' = children
    BY <1>6 DEF PollEnd, TypeOK
  <2>3. pc[w] = "poll" /\ pc'[w] \in {"beat", "claim"}
    BY <1>6 DEF PollEnd, Goto, TypeOK
  <2>4. QED
    BY <1>0, <2>1, <2>2, <2>3, LoopingKnows DEF Looping
<1>7. CASE RenewRead(w)
  <2>1. NoNewClaims /\ exec' = exec
    BY <1>1, <1>7 DEF RenewRead, runVars
  <2>2. /\ cur'[w] \subseteq todo[w] /\ todo'[w] \subseteq todo[w] /\ children' = children
        /\ \A c, d \in cur'[w] : c = d
    BY <1>7 DEF RenewRead, TypeOK
  <2>3. pc[w] = "beat" /\ pc'[w] = "renewing"
    BY <1>7 DEF RenewRead, Goto, TypeOK
  <2>4. QED
    BY <1>0, <2>1, <2>2, <2>3, LoopingKnows DEF Looping
<1>8. CASE RenewWrite(w)
  <2>1. NoNewClaims /\ exec' = exec
    BY <1>1, <1>8 DEF RenewWrite
  <2>2. /\ cur'[w] = {} /\ todo' = todo /\ children' = children
    BY <1>8 DEF RenewWrite, TypeOK
  <2>3. pc[w] = "renewing" /\ pc'[w] = "beat"
    BY <1>8 DEF RenewWrite, Goto, TypeOK
  <2>4. QED
    BY <1>0, <2>1, <2>2, <2>3, LoopingKnows DEF Looping
<1>9. CASE BeatEnd(w) \/ (ClaimEnd(w) /\ ~LoopDone(w))
  <2>1. NoNewClaims /\ exec' = exec
    BY <1>1, <1>9 DEF BeatEnd, ClaimEnd, runVars
  <2>2. /\ cur' = cur /\ todo' = todo /\ children' = children
    BY <1>9 DEF BeatEnd, ClaimEnd
  <2>3. pc[w] \in {"beat", "claim"} /\ pc'[w] \in {"claim", "reap"}
    BY <1>9 DEF BeatEnd, ClaimEnd, Goto, TypeOK
  <2>4. QED
    BY <1>0, <2>1, <2>2, <2>3, LoopingKnows DEF Looping
<1>10. QED
  BY <1>2, <1>3, <1>4, <1>5, <1>6, <1>7, <1>8, <1>9

\* The poll forgets a child only when its claim is outdated or failed with it.
LEMMA PollKnows ==
  ASSUME TypeOK, NEW w \in Workers, Knows(w), PollAct(w)
  PROVE  Knows(w)' /\ NoNewClaims
<1>0. /\ \A c \in children[w] : c.worker = w /\ c.gen <= exec[c.run] /\ c \in Claim
      /\ \A c \in cur[w] : c.worker = w /\ c.gen <= exec[c.run] /\ c \in Claim
      /\ \A c, d \in cur[w] : c = d
      /\ \A c \in todo[w] : c.gen <= exec[c.run] /\ c \in Claim
      /\ pc[w] # "reaping" => \A c \in todo[w] : c.worker = w
  BY DEF Knows, KnowsOwnOnly, KnowsPast, TypeOK
<1>1. PICK c \in cur[w] :
        IF Settled(w, c)
        THEN /\ IF stale[w] THEN UNCHANGED runVars ELSE FailExecution(c, FALSE)
             /\ children' = [children EXCEPT ![w] = @ \ {c}]
        ELSE UNCHANGED <<runVars, children>>
  BY DEF PollAct
<1>2. NoNewClaims
  <2>1. UNCHANGED runVars => NoNewClaims
    BY DEF runVars, NoNewClaims, Claimed
  <2>2. QED
    BY <1>0, <1>1, <2>1, FailClaimsNothing
<1>3. /\ pc[w] = "polled" /\ pc'[w] = "poll" /\ cur'[w] = {} /\ todo' = todo
      /\ exec' = exec
  BY <1>2 DEF PollAct, Goto, TypeOK, NoNewClaims
<1>4. CASE ~Settled(w, c)
  <2>1. children' = children
    BY <1>1, <1>4
  <2>2. QED
    BY <1>0, <1>2, <1>3, <2>1, LoopingKnows DEF Looping
<1>5. CASE Settled(w, c)
  <2>1. children'[w] = children[w] \ {c}
    BY <1>1, <1>5 DEF TypeOK
  <2>2. \A r \in Runs : Holds(w, r)' => Holds(w, r) /\ HeldClaim(w, r)' = HeldClaim(w, r)
    BY <1>2, HoldsPass
  <2>3. Outdated(c)' \/ ~(worker[c.run] = w)
    <3>1. c.run \in Runs /\ c.worker = w
      BY <1>0 DEF Claim
    <3>2. CASE stale[w]
      <4>1. Outdated(c)
        BY <1>3, <3>2 DEF Knows, StaleIsStale
      <4>2. QED
        BY <1>0, <1>2, <4>1, ClaimsPass
    <3>3. CASE ~stale[w] /\ MayFail(c, FALSE)
      <4>1. status' = [status EXCEPT ![c.run] = "failed"]
        BY <1>1, <1>5, <3>3 DEF FailExecution
      <4>2. QED
        BY <3>1, <4>1 DEF Outdated, Claimed, TypeOK
    <3>4. CASE ~stale[w] /\ ~MayFail(c, FALSE)
      <4>1. UNCHANGED runVars
        BY <1>1, <1>5, <3>4 DEF FailExecution
      <4>2. QED
        BY <3>1, <3>4, <4>1 DEF MayFail, Outdated, Claimed, runVars
    <3>5. QED
      BY <3>2, <3>3, <3>4
  <2>4. LoopKnows(w)'
    <3>1. SUFFICES ASSUME NEW r \in Runs, Holds(w, r)'
                   PROVE  HeldClaim(w, r)' \in children'[w]
      BY DEF LoopKnows, Holds, HeldClaim, Claimed
    <3>2. Holds(w, r) /\ HeldClaim(w, r)' = HeldClaim(w, r)
      BY <2>2, <3>1
    <3>3. HeldClaim(w, r) \in children[w]
      BY <1>3, <3>2 DEF Knows, LoopKnows, Looping
    <3>4. HeldClaim(w, r) # c
      <4>1. SUFFICES ASSUME HeldClaim(w, r) = c PROVE FALSE
        OBVIOUS
      <4>2. c.run = r /\ c.gen = gen[r] /\ gen'[r] = gen[r]
        BY <1>2, <3>1, <4>1 DEF HeldClaim, NoNewClaims, Holds
      <4>3. ~Outdated(c)' /\ worker[r] = w
        BY <3>1, <3>2, <4>2 DEF Outdated, Holds, Claimed
      <4>4. QED
        BY <2>3, <4>2, <4>3
    <3>5. QED
      BY <2>1, <3>2, <3>3, <3>4
  <2>5. OffIsNew(w)' /\ ExitKnows(w)' /\ StaleIsStale(w)' /\ KnowsOwnOnly(w)' /\ KnowsPast(w)'
    BY <1>0, <1>3, <2>1 DEF OffIsNew, ExitKnows, StaleIsStale, KnowsOwnOnly, KnowsPast
  <2>6. QED
    BY <1>2, <2>4, <2>5 DEF Knows
<1>6. QED
  BY <1>4, <1>5

\* A claim is in the supervisor's hands from the moment it is made; the others
\* have no part in it, and nothing outdated is revived by it.
LEMMA ClaimKnows ==
  ASSUME TypeOK, IInv, NEW w \in Workers, ClaimRun(w), Watching
  PROVE  Watching'
<1>1. PICK r \in Runs :
        /\ status[r] = "running" /\ exec[r] # gen[r]
        /\ exec' = [exec EXCEPT ![r] = gen[r]] /\ worker' = [worker EXCEPT ![r] = w]
        /\ cur' = [cur EXCEPT ![w] = {[run |-> r, gen |-> gen[r], worker |-> w]}]
  BY DEF ClaimRun, MayClaim, Claimable
<1>2. /\ UNCHANGED <<status, gen, todo, stale, children>>
      /\ pc' = [pc EXCEPT ![w] = "spawn"] /\ pc[w] = "claim"
  BY DEF ClaimRun, Goto
<1>3. /\ gen[r] \in Nat /\ exec[r] \in Nat /\ exec[r] < gen[r]
      /\ \A q \in Runs : exec[q] \in Nat
  <2>1. gen[r] \in Nat /\ exec[r] \in Nat /\ exec[r] <= gen[r]
    BY DEF TypeOK, IInv, GenerationsAdvance
  <2>2. QED
    BY <1>1, <2>1 DEF TypeOK
<1>4. /\ exec'[r] = gen[r] /\ worker'[r] = w
      /\ \A q \in Runs \ {r} : exec'[q] = exec[q] /\ worker'[q] = worker[q]
  BY <1>1 DEF TypeOK
<1>5. \A v \in Workers \ {w} : cur'[v] = cur[v] /\ pc'[v] = pc[v]
  BY <1>1, <1>2 DEF TypeOK
<1>6. cur'[w] = {HeldClaim(w, r)} /\ pc'[w] = "spawn"
  BY <1>1, <1>2 DEF TypeOK, HeldClaim
<1>7. ASSUME NEW c \in Claim, c.gen <= exec[c.run]
      PROVE  c.gen <= exec'[c.run] /\ (Outdated(c) => Outdated(c)')
  <2>1. c.run \in Runs /\ c.gen \in Nat
    BY DEF Claim
  <2>2. CASE c.run = r
    BY <1>2, <1>3, <1>4, <1>7, <2>1, <2>2 DEF Outdated, Claimed
  <2>3. CASE c.run # r
    BY <1>2, <1>4, <1>7, <2>1, <2>3 DEF Outdated, Claimed
  <2>4. QED
    BY <2>2, <2>3
<1>8. \A v \in Workers : /\ Knows(v)
                         /\ \A c \in children[v] \union cur[v] \union todo[v] :
                              c \in Claim /\ c.gen <= exec[c.run]
  BY DEF Watching, Knows, KnowsPast, TypeOK
<1>9. ASSUME NEW v \in Workers, v # w PROVE Knows(v)'
  <2>1. \A q \in Runs : /\ Holds(v, q)' => Holds(v, q) /\ HeldClaim(v, q)' = HeldClaim(v, q)
                        /\ worker'[q] = v => worker[q] = v
    BY <1>2, <1>4, <1>9 DEF Holds, Claimed, HeldClaim
  <2>2. /\ cur'[v] = cur[v] /\ pc'[v] = pc[v] /\ todo'[v] = todo[v] /\ stale'[v] = stale[v]
        /\ children'[v] = children[v]
    BY <1>2, <1>5, <1>9
  <2>3. OffIsNew(v)' /\ KnowsOwnOnly(v)'
    BY <1>8, <2>1, <2>2 DEF Knows, OffIsNew, KnowsOwnOnly
  <2>4. KnowsPast(v)'
    BY <1>7, <1>8, <2>2 DEF KnowsPast
  <2>5. StaleIsStale(v)'
    <3>1. SUFFICES ASSUME pc'[v] = "polled", stale'[v], NEW c \in cur'[v] PROVE Outdated(c)'
      BY DEF StaleIsStale, Outdated, Claimed
    <3>2. c \in cur[v] /\ Outdated(c)
      BY <1>8, <2>2, <3>1 DEF Knows, StaleIsStale
    <3>3. QED
      BY <1>7, <1>8, <3>2
  <2>6. LoopKnows(v)'
    <3>1. SUFFICES ASSUME Looping(v)', NEW q \in Runs, Holds(v, q)'
                   PROVE  \/ HeldClaim(v, q)' \in children'[v]
                          \/ pc'[v] = "spawn" /\ HeldClaim(v, q)' \in cur'[v]
      BY DEF LoopKnows, Holds, HeldClaim, Claimed
    <3>2. Looping(v) /\ Holds(v, q) /\ HeldClaim(v, q)' = HeldClaim(v, q)
      BY <2>1, <2>2, <3>1 DEF Looping
    <3>3. QED
      BY <1>8, <2>2, <3>2 DEF Knows, LoopKnows
  <2>7. ExitKnows(v)'
    <3>1. SUFFICES ASSUME "unfenced" \notin Faults, NEW q \in Runs, Holds(v, q)'
                   PROVE  /\ pc'[v] = "exit" => HeldClaim(v, q)' \in todo'[v]
                          /\ pc'[v] # "gone"
      BY DEF ExitKnows, Holds, HeldClaim, Claimed
    <3>2. Holds(v, q) /\ HeldClaim(v, q)' = HeldClaim(v, q)
      BY <2>1, <3>1
    <3>3. QED
      BY <1>8, <2>2, <3>1, <3>2 DEF Knows, ExitKnows
  <2>8. QED
    BY <2>3, <2>4, <2>5, <2>6, <2>7 DEF Knows
<1>10. Knows(w)'
  <2>1. OffIsNew(w)' /\ ExitKnows(w)' /\ StaleIsStale(w)'
    BY <1>6 DEF OffIsNew, ExitKnows, StaleIsStale
  <2>2. KnowsOwnOnly(w)'
    <3>1. KnowsOwnOnly(w) /\ HeldClaim(w, r).worker = w
      BY <1>8 DEF Knows, HeldClaim
    <3>2. QED
      BY <1>2, <1>6, <3>1 DEF KnowsOwnOnly
  <2>3. KnowsPast(w)'
    <3>1. HeldClaim(w, r).gen <= exec'[HeldClaim(w, r).run]
      BY <1>3, <1>4 DEF HeldClaim
    <3>2. \A c \in children[w] \union todo[w] : c.gen <= exec'[c.run]
      BY <1>7, <1>8
    <3>3. QED
      BY <1>2, <1>6, <3>1, <3>2 DEF KnowsPast
  <2>4. LoopKnows(w)'
    <3>1. SUFFICES ASSUME NEW q \in Runs, Holds(w, q)'
                   PROVE  \/ HeldClaim(w, q)' \in children'[w]
                          \/ pc'[w] = "spawn" /\ HeldClaim(w, q)' \in cur'[w]
      BY DEF LoopKnows, Holds, HeldClaim, Claimed
    <3>2. HeldClaim(w, q)' = HeldClaim(w, q)
      BY <1>2 DEF HeldClaim
    <3>3. CASE q = r
      BY <1>6, <3>2, <3>3
    <3>4. CASE q # r
      <4>1. Holds(w, q)
        BY <1>2, <1>4, <3>1, <3>4 DEF Holds, Claimed
      <4>2. Looping(w) /\ pc[w] # "spawn"
        BY <1>2 DEF Looping
      <4>3. QED
        BY <1>2, <1>8, <3>2, <4>1, <4>2 DEF Knows, LoopKnows
    <3>5. QED
      BY <3>3, <3>4
  <2>5. QED
    BY <2>1, <2>2, <2>3, <2>4 DEF Knows
<1>11. QED
  BY <1>9, <1>10 DEF Watching

\* The spawned process enters the dict, where it replaces no current claim.
LEMMA SpawnKnows ==
  ASSUME TypeOK, IInv, NEW w \in Workers, Knows(w), SpawnOk(w) \/ SpawnFail(w)
  PROVE  Knows(w)' /\ NoNewClaims
<1>0. /\ \A c \in children[w] : c.worker = w /\ c.gen <= exec[c.run] /\ c \in Claim
      /\ \A c \in cur[w] : c.worker = w /\ c.gen <= exec[c.run] /\ c \in Claim
      /\ \A c, d \in cur[w] : c = d
      /\ \A c \in todo[w] : c.gen <= exec[c.run] /\ c \in Claim
      /\ pc[w] # "reaping" => \A c \in todo[w] : c.worker = w
  BY DEF Knows, KnowsOwnOnly, KnowsPast, TypeOK
<1>1. /\ pc[w] = "spawn" /\ pc'[w] = "claim" /\ cur'[w] = {} /\ todo' = todo
  BY DEF SpawnOk, SpawnFail, Goto, TypeOK
<1>2. \A c \in cur[w] : exec[c.run] = c.gen
  BY <1>1 DEF IInv, ClaimIsFresh, Unspawned, Latest
<1>3. NoNewClaims
  <2>1. UNCHANGED runVars => NoNewClaims
    BY DEF runVars, NoNewClaims, Claimed
  <2>2. QED
    BY <1>0, <2>1, FailClaimsNothing DEF SpawnOk, SpawnFail
<1>4. exec' = exec
  BY <1>3 DEF NoNewClaims
<1>5. PICK c \in cur[w] : \/ children'[w] = WithChild(w, c)
                          \/ children' = children /\ FailExecution(c, FALSE)
  BY DEF SpawnOk, SpawnFail, TypeOK
<1>6. cur[w] = {c}
  BY <1>0
<1>7. \A d \in children'[w] : d \in children[w] \/ d = c
  BY <1>5 DEF WithChild
<1>8. \A d \in children'[w] : d.worker = w /\ d.gen <= exec'[d.run]
  BY <1>0, <1>4, <1>7
<1>9. LoopKnows(w)'
  <2>1. SUFFICES ASSUME NEW r \in Runs, Holds(w, r)' PROVE HeldClaim(w, r)' \in children'[w]
    BY DEF LoopKnows, Holds, HeldClaim, Claimed
  <2>2. Holds(w, r) /\ HeldClaim(w, r)' = HeldClaim(w, r)
    BY <1>3, <2>1, HoldsPass
  <2>3. HeldClaim(w, r) \in children[w] \/ HeldClaim(w, r) = c
    BY <1>1, <1>6, <2>2 DEF Knows, LoopKnows, Looping
  <2>4. c.run \in Runs /\ c.worker = w /\ c.gen = exec[c.run]
    BY <1>0, <1>2 DEF Claim
  <2>5. r = c.run => HeldClaim(w, r) = c
    <3>1. SUFFICES ASSUME r = c.run PROVE HeldClaim(w, r) = c
      OBVIOUS
    <3>2. c = [run |-> c.run, gen |-> c.gen, worker |-> c.worker]
      BY <1>0 DEF Claim
    <3>3. QED
      BY <2>2, <2>4, <3>1, <3>2 DEF HeldClaim, Holds, Claimed
  <2>6. CASE children'[w] = WithChild(w, c)
    <3>1. HeldClaim(w, r).run = r
      BY DEF HeldClaim
    <3>2. HeldClaim(w, r) = c \/ (HeldClaim(w, r) \in children[w] /\ HeldClaim(w, r).run # c.run)
      BY <2>3, <2>5, <3>1
    <3>3. QED
      BY <2>2, <2>6, <3>2 DEF WithChild
  <2>7. CASE children' = children /\ FailExecution(c, FALSE)
    <3>1. HeldClaim(w, r) # c
      <4>1. SUFFICES ASSUME HeldClaim(w, r) = c PROVE FALSE
        OBVIOUS
      <4>2. c.run = r /\ c.gen = gen[r]
        BY <4>1 DEF HeldClaim
      <4>3. MayFail(c, FALSE)
        BY <2>2, <2>4, <4>2 DEF MayFail, Holds, Claimed
      <4>4. status'[r] = "failed"
        BY <2>7, <4>2, <4>3 DEF FailExecution, TypeOK
      <4>5. QED
        BY <2>1, <4>4 DEF Holds, Claimed
    <3>2. QED
      BY <2>2, <2>3, <2>7, <3>1
  <2>8. QED
    BY <1>5, <2>6, <2>7
<1>10. OffIsNew(w)' /\ ExitKnows(w)' /\ StaleIsStale(w)' /\ KnowsOwnOnly(w)' /\ KnowsPast(w)'
  BY <1>0, <1>1, <1>4, <1>8 DEF OffIsNew, ExitKnows, StaleIsStale, KnowsOwnOnly, KnowsPast
<1>11. QED
  BY <1>3, <1>9, <1>10 DEF Knows

\* A supervisor that comes up holds nothing yet, and one that leaves its loop
\* takes its dict along as the list of what it has to fence.
LEMMA EndsKnow ==
  ASSUME TypeOK, NEW w \in Workers, Knows(w),
         \/ Launch(w) \/ (ClaimEnd(w) /\ LoopDone(w)) \/ LoopError(w) \/ Crash(w)
  PROVE  Knows(w)' /\ NoNewClaims
<1>0. /\ \A c \in children[w] : c.worker = w /\ c.gen <= exec[c.run] /\ c \in Claim
      /\ \A c \in cur[w] : c.worker = w /\ c.gen <= exec[c.run] /\ c \in Claim
      /\ \A c, d \in cur[w] : c = d
      /\ \A c \in todo[w] : c.gen <= exec[c.run] /\ c \in Claim
      /\ pc[w] # "reaping" => \A c \in todo[w] : c.worker = w
  BY DEF Knows, KnowsOwnOnly, KnowsPast, TypeOK
<1>1. UNCHANGED <<status, gen, exec, worker>>
  BY DEF Launch, ClaimEnd, LoopError, Crash, runVars
<1>2. NoNewClaims
  BY <1>1 DEF NoNewClaims, Claimed
<1>3. \A r \in Runs : /\ Holds(w, r)' => Holds(w, r)
                      /\ HeldClaim(w, r)' = HeldClaim(w, r)
  BY <1>1 DEF Holds, Claimed, HeldClaim
<1>4. CASE Launch(w)
  <2>1. /\ pc[w] = "off" /\ pc'[w] = "reap"
        /\ UNCHANGED <<todo, cur, children>>
    BY <1>4 DEF Launch, Goto, TypeOK
  <2>2. \A r \in Runs : ~Holds(w, r)'
    BY <1>3, <2>1 DEF Knows, OffIsNew, Holds
  <2>3. LoopKnows(w)'
    BY <2>2 DEF LoopKnows, Holds, HeldClaim, Claimed
  <2>4. OffIsNew(w)' /\ ExitKnows(w)' /\ StaleIsStale(w)' /\ KnowsOwnOnly(w)' /\ KnowsPast(w)'
    BY <1>0, <1>1, <2>1 DEF OffIsNew, ExitKnows, StaleIsStale, KnowsOwnOnly, KnowsPast
  <2>5. QED
    BY <1>2, <2>3, <2>4 DEF Knows
<1>5. CASE (ClaimEnd(w) /\ LoopDone(w)) \/ LoopError(w)
  <2>1. /\ Looping(w) /\ pc'[w] = "exit" /\ todo'[w] = children[w] /\ children' = children
        /\ cur'[w] \in {cur[w], {}}
        /\ pc[w] = "spawn" => "unfenced" \in Faults
    BY <1>5 DEF ClaimEnd, LoopError, Goto, Looping, TypeOK
  <2>2. ExitKnows(w)'
    <3>1. SUFFICES ASSUME "unfenced" \notin Faults, NEW r \in Runs, Holds(w, r)'
                   PROVE  HeldClaim(w, r)' \in todo'[w]
      BY <2>1 DEF ExitKnows, Holds, HeldClaim, Claimed
    <3>2. HeldClaim(w, r) \in children[w]
      BY <1>3, <2>1, <3>1 DEF Knows, LoopKnows
    <3>3. QED
      BY <1>3, <2>1, <3>2
  <2>3. LoopKnows(w)' /\ OffIsNew(w)' /\ StaleIsStale(w)'
    BY <2>1 DEF LoopKnows, Looping, OffIsNew, StaleIsStale
  <2>4. KnowsOwnOnly(w)' /\ KnowsPast(w)'
    BY <1>0, <1>1, <2>1 DEF KnowsOwnOnly, KnowsPast
  <2>5. QED
    BY <1>2, <2>2, <2>3, <2>4 DEF Knows
<1>6. CASE Crash(w)
  <2>1. pc'[w] = "dead" /\ todo'[w] = {} /\ cur'[w] = {} /\ children'[w] = {}
    BY <1>6 DEF Crash, Goto, TypeOK
  <2>2. Knows(w)'
    BY <2>1 DEF Knows, LoopKnows, Looping, OffIsNew, StaleIsStale, ExitKnows, KnowsOwnOnly,
       KnowsPast
  <2>3. QED
    BY <1>2, <2>2
<1>7. QED
  BY <1>4, <1>5, <1>6

\* The finally clause fences a claim before it strikes it off its list.
LEMMA ExitsKnow ==
  ASSUME TypeOK, NEW w \in Workers, Knows(w), ExitOne(w) \/ ExitEnd(w)
  PROVE  Knows(w)' /\ NoNewClaims
<1>0. /\ \A c \in children[w] : c.worker = w /\ c.gen <= exec[c.run] /\ c \in Claim
      /\ \A c \in cur[w] : c.worker = w /\ c.gen <= exec[c.run] /\ c \in Claim
      /\ \A c, d \in cur[w] : c = d
      /\ \A c \in todo[w] : c.gen <= exec[c.run] /\ c \in Claim
      /\ pc[w] # "reaping" => \A c \in todo[w] : c.worker = w
  BY DEF Knows, KnowsOwnOnly, KnowsPast, TypeOK
<1>1. UNCHANGED runVars => NoNewClaims
  BY DEF runVars, NoNewClaims, Claimed
<1>2. CASE ExitEnd(w)
  <2>1. /\ pc[w] = "exit" /\ todo[w] = {} /\ pc'[w] = "gone"
        /\ UNCHANGED <<todo, cur, children>> /\ UNCHANGED runVars
    BY <1>2 DEF ExitEnd, Goto, TypeOK
  <2>2. ExitKnows(w)'
    <3>1. SUFFICES ASSUME "unfenced" \notin Faults, NEW r \in Runs, Holds(w, r)'
                   PROVE  FALSE
      BY DEF ExitKnows, Holds, HeldClaim, Claimed
    <3>2. Holds(w, r)
      BY <1>1, <2>1, <3>1, HoldsPass
    <3>3. QED
      BY <2>1, <3>1, <3>2 DEF Knows, ExitKnows
  <2>3. LoopKnows(w)' /\ OffIsNew(w)' /\ StaleIsStale(w)' /\ KnowsOwnOnly(w)' /\ KnowsPast(w)'
    <3>1. exec' = exec
      BY <2>1 DEF runVars
    <3>2. QED
      BY <1>0, <2>1, <3>1 DEF LoopKnows, Looping, OffIsNew, StaleIsStale, KnowsOwnOnly, KnowsPast
  <2>4. QED
    BY <1>1, <2>1, <2>2, <2>3 DEF Knows
<1>3. CASE ExitOne(w)
  <2>1. PICK c \in todo[w] :
          /\ Fence(c) \/ ("unfenced" \in Faults /\ UNCHANGED runVars)
          /\ todo'[w] = todo[w] \ {c} /\ children'[w] \subseteq children[w]
    BY <1>3 DEF ExitOne, TypeOK
  <2>2. pc[w] = "exit" /\ pc'[w] = "exit" /\ cur' = cur
    BY <1>3 DEF ExitOne
  <2>3. c \in Claim /\ c.worker = w /\ c.run \in Runs
    BY <1>0, <2>1, <2>2 DEF Claim
  <2>4. NoNewClaims
    BY <1>1, <2>1, <2>3, FailClaimsNothing DEF Fence
  <2>5. exec' = exec
    BY <2>4 DEF NoNewClaims
  <2>6. ExitKnows(w)'
    <3>1. SUFFICES ASSUME "unfenced" \notin Faults, NEW r \in Runs, Holds(w, r)'
                   PROVE  HeldClaim(w, r)' \in todo'[w]
      BY <2>2 DEF ExitKnows, Holds, HeldClaim, Claimed
    <3>2. Holds(w, r) /\ HeldClaim(w, r)' = HeldClaim(w, r)
      BY <2>4, <3>1, HoldsPass
    <3>3. HeldClaim(w, r) \in todo[w]
      BY <2>2, <3>1, <3>2 DEF Knows, ExitKnows
    <3>4. HeldClaim(w, r) # c
      <4>1. SUFFICES ASSUME HeldClaim(w, r) = c PROVE FALSE
        OBVIOUS
      <4>2. c.run = r /\ c.gen = gen[r]
        BY <4>1 DEF HeldClaim
      <4>3. MayFail(c, FALSE)
        BY <2>3, <3>2, <4>2 DEF MayFail, Holds, Claimed
      <4>4. status'[r] = "failed"
        BY <2>1, <2>3, <3>1, <4>2, <4>3 DEF Fence, FailExecution, TypeOK
      <4>5. QED
        BY <3>1, <4>4 DEF Holds, Claimed
    <3>5. QED
      BY <2>1, <3>2, <3>3, <3>4
  <2>7. LoopKnows(w)' /\ OffIsNew(w)' /\ StaleIsStale(w)'
    BY <2>2 DEF LoopKnows, Looping, OffIsNew, StaleIsStale
  <2>8. KnowsOwnOnly(w)' /\ KnowsPast(w)'
    BY <1>0, <2>1, <2>2, <2>5 DEF KnowsOwnOnly, KnowsPast
  <2>9. QED
    BY <2>4, <2>6, <2>7, <2>8 DEF Knows
<1>4. QED
  BY <1>2, <1>3

\* A supervisor's step concerns no other one.
LEMMA OneSupervisorMoves ==
  ASSUME TypeOK, NEW w \in Workers, Supervise(w) \/ LoopError(w) \/ Crash(w), NEW v \in Workers,
         v # w
  PROVE  /\ pc'[v] = pc[v] /\ todo'[v] = todo[v] /\ cur'[v] = cur[v] /\ stale'[v] = stale[v]
         /\ children'[v] = children[v]
<1>1. CASE \/ Launch(w) \/ ReapRead(w) \/ ReapAct(w) \/ ReapEnd(w)
           \/ PollRead(w) \/ PollEnd(w) \/ RenewRead(w)
  BY <1>1 DEF Launch, ReapRead, ReapAct, ReapEnd, PollRead, PollEnd, RenewRead, Goto, TypeOK
<1>2. CASE PollAct(w) \/ RenewWrite(w) \/ BeatEnd(w) \/ ClaimRun(w)
  BY <1>2 DEF PollAct, RenewWrite, BeatEnd, ClaimRun, Goto, TypeOK
<1>3. CASE SpawnOk(w) \/ SpawnFail(w) \/ ClaimEnd(w) \/ ExitOne(w) \/ ExitEnd(w)
  BY <1>3 DEF SpawnOk, SpawnFail, ClaimEnd, ExitOne, ExitEnd, Goto, TypeOK
<1>4. CASE LoopError(w) \/ Crash(w)
  BY <1>4 DEF LoopError, Crash, Goto, TypeOK
<1>5. QED
  BY <1>1, <1>2, <1>3, <1>4 DEF Supervise

\* No supervisor knows or holds anything before it comes up.
LEMMA WatchingInit == Init => Watching
<1> SUFFICES ASSUME Init, NEW w \in Workers PROVE Knows(w)
  BY DEF Watching
<1>1. \A r \in Runs : worker[r] = NoWorker
  BY DEF Init
<1>2. /\ pc[w] = "off" /\ todo[w] = {} /\ cur[w] = {} /\ children[w] = {}
  BY DEF Init
<1>3. QED
  BY <1>1, <1>2, ConstantsAssumption DEF Knows, OffIsNew, KnowsOwnOnly, KnowsPast, LoopKnows,
     Looping, StaleIsStale, ExitKnows

\* Every step of anybody leaves every supervisor knowing its claims.
LEMMA WatchingStep ==
  ASSUME TypeOK, IInv, Watching, [Next]_vars
  PROVE  Watching'
<1>1. \A v \in Workers : Knows(v)
  BY DEF Watching
<1>2. ASSUME NoNewClaims, UNCHANGED <<pc, todo, cur, stale, children>>
      PROVE  Watching'
  <2>1. ASSUME NEW v \in Workers PROVE Knows(v)'
    BY <1>1, <1>2, LeftAloneKnows
  <2>2. QED
    BY <2>1 DEF Watching
<1>3. ASSUME NEW w \in Workers, Supervise(w) \/ LoopError(w) \/ Crash(w),
             Knows(w)' /\ NoNewClaims
      PROVE  Watching'
  <2>1. ASSUME NEW v \in Workers, v # w PROVE Knows(v)'
    <3>1. /\ pc'[v] = pc[v] /\ todo'[v] = todo[v] /\ cur'[v] = cur[v] /\ stale'[v] = stale[v]
          /\ children'[v] = children[v]
      BY <1>3, <2>1, OneSupervisorMoves
    <3>2. QED
      BY <1>1, <1>3, <3>1, LeftAloneKnows
  <2>2. QED
    BY <1>3, <2>1 DEF Watching
<1>4. ASSUME NEW w \in Workers, Supervise(w) PROVE Watching'
  <2>1. CASE \/ ReapRead(w) \/ ReapAct(w) \/ ReapEnd(w) \/ PollRead(w) \/ PollEnd(w)
             \/ RenewRead(w) \/ RenewWrite(w) \/ BeatEnd(w)
             \/ (ClaimEnd(w) /\ ~LoopDone(w))
    <3>1. Knows(w)' /\ NoNewClaims
      BY <1>1, <2>1, LookingKnows
    <3>2. QED
      BY <1>3, <1>4, <3>1
  <2>2. CASE PollAct(w)
    BY <1>1, <1>3, <1>4, <2>2, PollKnows
  <2>3. CASE SpawnOk(w) \/ SpawnFail(w)
    BY <1>1, <1>3, <1>4, <2>3, SpawnKnows
  <2>4. CASE Launch(w) \/ (ClaimEnd(w) /\ LoopDone(w))
    BY <1>1, <1>3, <1>4, <2>4, EndsKnow
  <2>5. CASE ExitOne(w) \/ ExitEnd(w)
    BY <1>1, <1>3, <1>4, <2>5, ExitsKnow
  <2>6. CASE ClaimRun(w)
    BY <2>6, ClaimKnows
  <2>7. QED
    BY <1>4, <2>1, <2>2, <2>3, <2>4, <2>5, <2>6 DEF Supervise
<1>5. ASSUME NEW w \in Workers, LoopError(w) \/ Crash(w) PROVE Watching'
  <2>1. Knows(w)' /\ NoNewClaims
    BY <1>1, <1>5, EndsKnow
  <2>2. QED
    BY <1>3, <1>5, <2>1
<1>6. CASE \/ \E r \in Runs : Request(r)
           \/ \E p \in procs : Execute(p) \/ ChildCrash(p)
           \/ \E w \in Workers : StopSignal(w) \/ TerminalInterrupt(w)
           \/ Tick \/ UNCHANGED vars
  BY <1>2, <1>6, OthersClaimNothing
<1>7. QED
  BY <1>4, <1>5, <1>6 DEF Next, Environment

\* In every reachable state every supervisor knows the claims it holds.
THEOREM ClaimsAreKnown == Spec => []Watching
<1>1. TypeOK /\ IInv /\ Watching /\ [Next]_vars => Watching'
  BY WatchingStep
<1>2. QED
  BY <1>1, WatchingInit, TypeCorrect, Discipline, PTL DEF Spec

\* While a supervisor loops, the executor of a claim it still holds is in its
\* dict (run_investigation_worker: children, _start_child, _poll_children).
THEOREM ExecutorsStayWatched == Spec => []ExecutorsAreWatched
<1>1. TypeOK /\ IInv /\ Watching => ExecutorsAreWatched
  <2>1. SUFFICES ASSUME TypeOK, IInv, Watching, NEW p \in procs,
                        MayFail(ClaimOf(p), FALSE), Looping(p.worker)
                 PROVE  ClaimOf(p) \in children[p.worker]
    BY DEF ExecutorsAreWatched
  <2>2. p.run \in Runs /\ p.worker \in Workers
    BY <2>1 DEF TypeOK, Process
  <2>3. Holds(p.worker, p.run) /\ p.gen = gen[p.run]
    BY <2>1 DEF MayFail, ClaimOf, Holds, Claimed
  <2>4. HeldClaim(p.worker, p.run) = ClaimOf(p)
    BY <2>3 DEF HeldClaim, ClaimOf
  <2>5. \/ ClaimOf(p) \in children[p.worker]
        \/ pc[p.worker] = "spawn" /\ ClaimOf(p) \in cur[p.worker]
    BY <2>1, <2>2, <2>3, <2>4 DEF Watching, Knows, LoopKnows
  <2>6. ~(pc[p.worker] = "spawn" /\ ClaimOf(p) \in cur[p.worker])
    BY <2>1, <2>2 DEF IInv, ClaimIsFresh, Unspawned, ClaimOf
  <2>7. QED
    BY <2>5, <2>6
<1>2. QED
  BY <1>1, TypeCorrect, Discipline, ClaimsAreKnown, PTL

\* Where the fencing transaction itself does not fail, a supervisor that has left
\* through its finally clause owns no running generation (run_investigation_worker.py
\* 148).
THEOREM ExitsAlwaysFence ==
  ASSUME "unfenced" \notin Faults
  PROVE  Spec => []ExitFencesClaims
<1>1. Watching => ExitFencesClaims
  BY DEF Watching, Knows, ExitKnows, ExitFencesClaims, Holds, Claimed
<1>2. QED
  BY <1>1, ClaimsAreKnown, PTL

---------------------------------------------------------------------------
(* Who may fail a run.  Every cleanup goes through fail_execution with a   *)
(* claim, and a claim that may fail a run is the one its executor has.     *)

\* What fails a running run by fail_execution is its own claim.
LEMMA FailsItsOwn ==
  ASSUME TypeOK, NEW c \in Claim, NEW only \in BOOLEAN, FailExecution(c, only),
         NEW r \in Runs, status[r] = "running", status'[r] = "failed"
  PROVE  c.run = r /\ MayFail(c, only)
<1>1. MayFail(c, only)
  <2>1. UNCHANGED runVars => status'[r] = "running"
    BY DEF runVars
  <2>2. QED
    BY <2>1 DEF FailExecution
<1>2. status' = [status EXCEPT ![c.run] = "failed"]
  BY <1>1 DEF FailExecution
<1>3. QED
  BY <1>1, <1>2 DEF TypeOK

\* A claim is determined by its parts.
LEMMA SameClaim ==
  ASSUME TypeOK, NEW p \in procs, NEW c \in Claim, c.run = p.run, c.gen = p.gen,
         c.worker = p.worker
  PROVE  c = ClaimOf(p)
BY DEF Claim, ClaimOf

\* While its supervisor loops, its lease is live and its runtime is not used up, a
\* working executor's run fails by the executor's own hand only (reap_executions,
\* fail_execution, _poll_children).
THEOREM HealthyExecutorsAreNotFailed == Spec => HealthyExecutorIsNotFailed
<1>1. ASSUME TypeOK, IInv, Watching, Next, NEW p \in procs,
             p.at \in {"idle", "call"}, MayFail(ClaimOf(p), FALSE), lease[p.run] > 0,
             age[p.run] <= RuntimeTicks, Looping(p.worker), status'[p.run] = "failed"
      PROVE  [p EXCEPT !.at = "done"] \in procs'
  <2>1. p \in Process /\ p.run \in Runs /\ p.gen \in Nat /\ p.worker \in Workers
    BY <1>1 DEF TypeOK, Process
  <2>2. /\ status[p.run] = "running" /\ gen[p.run] = p.gen /\ exec[p.run] = p.gen
        /\ worker[p.run] = p.worker
    BY <1>1 DEF MayFail, ClaimOf
  <2>3. ASSUME NEW c \in Claim, NEW only \in BOOLEAN, FailExecution(c, only)
        PROVE  /\ c = ClaimOf(p) /\ MayFail(c, only) /\ ~only
               /\ c.run = p.run /\ c.gen = p.gen /\ c.worker = p.worker
    <3>1. c.run = p.run /\ MayFail(c, only)
      BY <1>1, <2>1, <2>2, <2>3, FailsItsOwn
    <3>2. c.gen = p.gen /\ c.worker = p.worker
      BY <2>2, <3>1 DEF MayFail
    <3>3. ~only
      <4>1. ~(lease[p.run] <= 0)
        <5>1. lease[p.run] \in Int
          BY <1>1, <2>1, ConstantsAssumption DEF TypeOK, Expired
        <5>2. QED
          BY <1>1, <5>1
      <4>2. only => lease[c.run] <= 0
        BY <3>1 DEF MayFail
      <4>3. QED
        BY <3>1, <4>1, <4>2
    <3>4. QED
      BY <1>1, <3>1, <3>2, <3>3, SameClaim
  <2>4. ASSUME UNCHANGED status PROVE FALSE
    BY <1>1, <2>2, <2>4
  <2>5. p \in Alive(ClaimOf(p))
    BY DEF Alive
  <2>6. ASSUME NEW r \in Runs, Request(r) PROVE FALSE
    <3>1. \A q \in Runs : status[q] = "running" => status'[q] # "failed"
      BY <1>1, <2>6 DEF Request, Start, Resubmit, Continue, Abort, TypeOK
    <3>2. QED
      BY <1>1, <2>1, <2>2, <3>1
  <2>7. ASSUME NEW w \in Workers, Supervise(w) PROVE FALSE
    <3>1. CASE ReapAct(w)
      <4>1. PICK c \in todo[w] : FailExecution(c, TRUE)
        BY <3>1 DEF ReapAct
      <4>2. c \in Claim
        BY <1>1 DEF TypeOK
      <4>3. QED
        BY <2>3, <4>1, <4>2
    <3>2. CASE PollAct(w)
      <4>1. PICK c \in cur[w] :
              IF Settled(w, c)
              THEN IF stale[w] THEN UNCHANGED runVars ELSE FailExecution(c, FALSE)
              ELSE UNCHANGED runVars
        BY <3>2 DEF PollAct
      <4>2. c \in Claim
        BY <1>1 DEF TypeOK
      <4>3. UNCHANGED runVars => FALSE
        BY <2>4 DEF runVars
      <4>4. Settled(w, c) /\ ~stale[w] /\ FailExecution(c, FALSE)
        BY <4>1, <4>3
      <4>5. c = ClaimOf(p) /\ c.run = p.run
        BY <2>3, <4>2, <4>4
      <4>6. Alive(c) # {} /\ ~(age[c.run] > RuntimeTicks)
        <5>1. age[p.run] \in Nat /\ RuntimeTicks \in Nat
          BY <1>1, <2>1, ConstantsAssumption DEF TypeOK
        <5>2. QED
          BY <1>1, <2>5, <4>5, <5>1
      <4>7. QED
        BY <4>4, <4>6 DEF Settled
    <3>3. CASE SpawnFail(w)
      <4>1. PICK c \in cur[w] : FailExecution(c, FALSE)
        BY <3>3 DEF SpawnFail
      <4>2. c \in Claim /\ w \in Unspawned
        BY <1>1, <3>3 DEF TypeOK, SpawnFail, Unspawned
      <4>3. c.run = p.run /\ c.gen = p.gen
        BY <2>3, <4>1, <4>2
      <4>4. ~(p.run = c.run /\ p.gen = c.gen)
        BY <1>1, <4>2 DEF IInv, ClaimIsFresh
      <4>5. QED
        BY <4>3, <4>4
    <3>4. CASE ExitOne(w)
      <4>1. PICK c \in todo[w] : FailExecution(c, FALSE) \/ UNCHANGED runVars
        BY <3>4 DEF ExitOne, Fence
      <4>2. c \in Claim /\ pc[w] = "exit"
        BY <1>1, <3>4 DEF TypeOK, ExitOne
      <4>3. c.worker = p.worker
        BY <2>3, <2>4, <4>1, <4>2 DEF runVars
      <4>4. c.worker = w
        BY <1>1, <4>2 DEF Watching, Knows, KnowsOwnOnly
      <4>5. QED
        BY <1>1, <4>2, <4>3, <4>4 DEF Looping
    <3>5. CASE \/ Launch(w) \/ ReapRead(w) \/ ReapEnd(w) \/ PollRead(w) \/ PollEnd(w)
               \/ RenewRead(w) \/ RenewWrite(w) \/ BeatEnd(w) \/ ClaimRun(w) \/ SpawnOk(w)
               \/ ClaimEnd(w) \/ ExitEnd(w)
      BY <2>4, <3>5 DEF Launch, ReapRead, ReapEnd, PollRead, PollEnd, RenewRead, RenewWrite,
         BeatEnd, ClaimRun, SpawnOk, ClaimEnd, ExitEnd, runVars
    <3>6. QED
      BY <2>7, <3>1, <3>2, <3>3, <3>4, <3>5 DEF Supervise
  <2>8. ASSUME NEW q \in procs, Execute(q) PROVE [p EXCEPT !.at = "done"] \in procs'
    <3>1. q \in Process /\ ClaimOf(q) \in Claim
      BY <1>1 DEF TypeOK, Process, ClaimOf, Claim
    <3>2. q.run = p.run /\ q.gen = p.gen => q = p
      BY <1>1 DEF IInv, SingleExecutor
    <3>3. CASE Error(q)
      <4>1. FailExecution(ClaimOf(q), FALSE) /\ Becomes(q, "done")
        BY <3>3 DEF Error
      <4>2. ClaimOf(q) = ClaimOf(p)
        BY <2>3, <3>1, <4>1
      <4>3. q = p
        BY <3>2, <4>2 DEF ClaimOf
      <4>4. QED
        BY <4>1, <4>3 DEF Becomes
    <3>4. CASE Boot(q)
      <4>1. UNCHANGED status \/ FailExecution(ClaimOf(q), FALSE)
        BY <3>4 DEF Boot, runVars
      <4>2. ClaimOf(q) = ClaimOf(p)
        BY <2>3, <2>4, <3>1, <4>1
      <4>3. q = p
        BY <3>2, <4>2 DEF ClaimOf
      <4>4. QED
        BY <1>1, <3>4, <4>3 DEF Boot
    <3>5. CASE Conclude(q)
      <4>1. Owns(q) /\ Becomes(q, "done") /\ \A r \in Runs : r # q.run => status'[r] = status[r]
        BY <1>1, <3>5 DEF Conclude, TypeOK
      <4>2. q.run = p.run
        BY <1>1, <2>1, <2>2, <4>1
      <4>3. q = p
        BY <2>2, <3>2, <4>1, <4>2 DEF Owns
      <4>4. QED
        BY <4>1, <4>3 DEF Becomes
    <3>6. CASE Reserve(q) \/ Answer(q) \/ Quit(q)
      BY <2>4, <3>6 DEF Reserve, Answer, Quit, runVars
    <3>7. CASE Pause(q)
      <4>1. \A r \in Runs : status'[r] \in {status[r], "waiting_human"}
        BY <1>1, <3>7 DEF Pause, TypeOK
      <4>2. QED
        BY <1>1, <2>1, <2>2, <4>1
    <3>8. QED
      BY <2>8, <3>3, <3>4, <3>5, <3>6, <3>7 DEF Execute
  <2>9. ASSUME Environment PROVE FALSE
    BY <2>4, <2>9 DEF Environment, Tick, StopSignal, TerminalInterrupt, LoopError, Crash,
       ChildCrash, runVars
  <2>10. QED
    BY <1>1, <2>6, <2>7, <2>8, <2>9 DEF Next
<1>2. TypeOK /\ IInv /\ Watching /\ [Next]_vars =>
        [\A p \in procs :
           /\ p.at \in {"idle", "call"}
           /\ MayFail(ClaimOf(p), FALSE)
           /\ lease[p.run] > 0
           /\ age[p.run] <= RuntimeTicks
           /\ Looping(p.worker)
           /\ status'[p.run] = "failed"
           => [p EXCEPT !.at = "done"] \in procs']_vars
  BY <1>1
<1>3. QED
  BY <1>2, TypeCorrect, Discipline, ClaimsAreKnown, PTL DEF Spec, HealthyExecutorIsNotFailed

---------------------------------------------------------------------------
(* The normal stop.  If no child, spawn, database or terminal fails and    *)
(* renewals write at once, a live claim has a process at work until its    *)
(* executor or its runtime ends it; so a supervisor that is told to stop   *)
(* lets its executors reach a boundary.                                    *)

Calm ==
  /\ Once = {}
  /\ MaxRenewDelay = 0
  /\ Faults \intersect {"child", "spawn", "database", "terminal"} = {}

AtWork(w, r) == \E p \in procs : ClaimOf(p) = HeldClaim(w, r) /\ p.at # "done"

Staffed ==
  \A w \in Workers, r \in Runs : Holds(w, r) /\ lease[r] > 0 /\ pc[w] # "dead" =>
    \/ pc[w] = "spawn" /\ HeldClaim(w, r) \in cur[w]
    \/ Looping(w) /\ AtWork(w, r)

\* A lease that has run out comes back only with a new claim.
LEMMA LeasesRunOut ==
  ASSUME TypeOK, MaxRenewDelay = 0, [Next]_vars, NEW r \in Runs,
         lease'[r] > 0, ~(lease[r] > 0)
  PROVE  \E w \in Workers : ClaimRun(w)
<1>1. /\ lease[r] \in Int /\ Expired = 0 /\ LeaseTicks \in Nat
      /\ \A w \in Workers : ago[w] = 0
  <2>1. Expired = 0 /\ LeaseTicks \in Nat
    <3>1. LeaseTicks \in Nat
      BY ConstantsAssumption
    <3>2. Expired \in Int /\ Expired <= 0 /\ Expired >= 0
      BY ConstantsAssumption DEF Expired
    <3>3. QED
      BY <3>1, <3>2
  <2>2. lease[r] \in Int
    BY <2>1 DEF TypeOK
  <2>3. ASSUME NEW w \in Workers PROVE ago[w] = 0
    <3>1. ago[w] \in 0 .. 0
      BY DEF TypeOK
    <3>2. QED
      BY <3>1
  <2>4. QED
    BY <2>1, <2>2, <2>3
<1>2. ASSUME NEW q \in Runs, Request(q) PROVE FALSE
  <2>1. lease' = lease \/ lease' = [lease EXCEPT ![q] = Expired]
    BY <1>2 DEF Request, Start, Resubmit, Continue, Abort, Dispatch
  <2>2. QED
    BY <1>1, <2>1 DEF TypeOK
<1>3. ASSUME NEW c, NEW only, FailExecution(c, only) PROVE FALSE
  <2>1. lease' = lease \/ lease' = [lease EXCEPT ![c.run] = Expired]
    BY <1>3 DEF FailExecution, runVars
  <2>2. QED
    BY <1>1, <2>1 DEF TypeOK
<1>4. ASSUME NEW w \in Workers, RenewWrite(w) PROVE FALSE
  <2>1. PICK c \in cur[w] :
          IF MayFail(c, FALSE) /\ lease[c.run] + ago[w] > 0
          THEN lease' = [lease EXCEPT ![c.run] = RenewedLease(w, c.run)]
          ELSE UNCHANGED lease
    BY <1>4 DEF RenewWrite
  <2>2. c.run \in Runs /\ lease[c.run] \in Int
    BY <1>1, ConstantsAssumption DEF TypeOK, Claim, Expired
  <2>3. lease[c.run] + ago[w] > 0 => c.run # r
    BY <1>1, <2>2
  <2>4. QED
    BY <2>1, <2>2, <2>3 DEF TypeOK
<1>5. ASSUME Tick PROVE FALSE
  BY <1>1, <1>5 DEF Tick
<1>6. ASSUME NEW w \in Workers, Supervise(w) PROVE ClaimRun(w)
  <2>1. UNCHANGED lease => FALSE
    OBVIOUS
  <2>2. CASE ReapAct(w) \/ PollAct(w) \/ SpawnFail(w) \/ ExitOne(w)
    <3>1. UNCHANGED runVars \/ \E c, only : FailExecution(c, only)
      BY <2>2 DEF ReapAct, PollAct, SpawnFail, ExitOne, Fence
    <3>2. QED
      BY <1>3, <2>1, <3>1 DEF runVars
  <2>3. CASE \/ Launch(w) \/ ReapRead(w) \/ ReapEnd(w) \/ PollRead(w) \/ PollEnd(w)
             \/ RenewRead(w) \/ BeatEnd(w) \/ SpawnOk(w) \/ ClaimEnd(w) \/ ExitEnd(w)
    BY <2>1, <2>3 DEF Launch, ReapRead, ReapEnd, PollRead, PollEnd, RenewRead, BeatEnd, SpawnOk,
       ClaimEnd, ExitEnd, runVars
  <2>4. QED
    BY <1>4, <1>6, <2>2, <2>3 DEF Supervise
<1>7. ASSUME NEW p \in procs, Execute(p) PROVE FALSE
  <2>1. CASE Boot(p) \/ Error(p) \/ Quit(p)
    <3>1. UNCHANGED runVars \/ \E c, only : FailExecution(c, only)
      BY <2>1 DEF Boot, Error, Quit
    <3>2. QED
      BY <1>3, <3>1 DEF runVars
  <2>2. CASE Reserve(p) \/ Answer(p) \/ Pause(p) \/ Conclude(p)
    BY <2>2 DEF Reserve, Answer, Pause, Conclude
  <2>3. QED
    BY <1>7, <2>1, <2>2 DEF Execute
<1>8. CASE Environment
  BY <1>5, <1>8 DEF Environment, StopSignal, TerminalInterrupt, LoopError, Crash, ChildCrash,
     runVars
<1>9. CASE UNCHANGED vars
  BY <1>9 DEF vars, runVars
<1>10. QED
  BY <1>2, <1>6, <1>7, <1>8, <1>9 DEF Next

\* A process at work stays at work or its claim ends with it.
LEMMA WorkGoesOn ==
  ASSUME TypeOK, IInv, Watching, Calm, [Next]_vars, NEW w \in Workers, NEW r \in Runs,
         Looping(w), AtWork(w, r), Holds(w, r), Holds(w, r)', lease[r] > 0,
         HeldClaim(w, r)' = HeldClaim(w, r)
  PROVE  AtWork(w, r)'
<1>1. PICK p \in procs : ClaimOf(p) = HeldClaim(w, r) /\ p.at # "done"
  BY DEF AtWork
<1>2. /\ p.run = r /\ p.gen = gen[r] /\ p.worker = w /\ p \in Process
      /\ status[r] = "running" /\ exec[r] = gen[r] /\ worker[r] = w /\ status'[r] = "running"
      /\ lease[r] \in Int
  BY <1>1, ConstantsAssumption DEF ClaimOf, HeldClaim, TypeOK, Holds, Claimed, Expired
<1>3. MayFail(ClaimOf(p), FALSE) /\ lease[p.run] > 0
  BY <1>2 DEF MayFail, ClaimOf
<1>4. ASSUME NEW q \in procs', ClaimOf(q) = ClaimOf(p), q.at # "done" PROVE AtWork(w, r)'
  <2>1. ClaimOf(q) = HeldClaim(w, r)'
    BY <1>1, <1>4
  <2>2. QED
    BY <1>4, <2>1 DEF AtWork, ClaimOf, HeldClaim
<1>5. ASSUME p \in procs' PROVE AtWork(w, r)'
  BY <1>1, <1>4, <1>5
<1>6. ASSUME NEW v \in Workers, Supervise(v) PROVE p \in procs'
  <2>1. CASE PollAct(v)
    <3>1. PICK c \in cur[v] :
            IF Settled(v, c)
            THEN /\ procs' = procs \ Alive(c)
                 /\ IF stale[v] THEN UNCHANGED runVars ELSE FailExecution(c, FALSE)
            ELSE UNCHANGED <<runVars, procs>>
      BY <2>1 DEF PollAct
    <3>2. CASE Settled(v, c) /\ p \in Alive(c)
      <4>1. c = ClaimOf(p)
        BY <3>2 DEF Alive
      <4>2. ~stale[v]
        <5>1. ~Outdated(c)
          BY <1>2, <4>1 DEF Outdated, Claimed, ClaimOf
        <5>2. pc[v] = "polled"
          BY <2>1 DEF PollAct
        <5>3. QED
          BY <5>1, <5>2 DEF Watching, Knows, StaleIsStale
      <4>3. status' = [status EXCEPT ![p.run] = "failed"]
        BY <1>3, <3>1, <3>2, <4>1, <4>2 DEF FailExecution, ClaimOf
      <4>4. QED
        BY <1>2, <4>3 DEF TypeOK
    <3>3. QED
      BY <3>1, <3>2
  <2>2. CASE RenewWrite(v)
    <3>1. PICK c \in cur[v] :
            IF MayFail(c, FALSE) /\ lease[c.run] + ago[v] > 0
            THEN UNCHANGED procs ELSE procs' = procs \ Alive(c)
      BY <2>2 DEF RenewWrite
    <3>2. p \in Alive(c) => MayFail(c, FALSE) /\ lease[c.run] + ago[v] > 0
      <4>1. SUFFICES ASSUME p \in Alive(c) PROVE MayFail(c, FALSE) /\ lease[c.run] + ago[v] > 0
        OBVIOUS
      <4>2. c = ClaimOf(p) /\ c.run = r
        BY <1>2, <4>1 DEF Alive, ClaimOf
      <4>3. ago[v] \in Nat
        BY ConstantsAssumption DEF TypeOK
      <4>4. lease[r] + ago[v] > 0
        BY <1>2, <4>3
      <4>5. QED
        BY <1>3, <4>2, <4>4
    <3>3. QED
      BY <3>1, <3>2
  <2>3. CASE ExitOne(v)
    <3>1. PICK c \in todo[v] : procs' = procs \ Alive(c)
      BY <2>3 DEF ExitOne
    <3>2. pc[v] = "exit" /\ c.worker = v
      BY <2>3 DEF ExitOne, Watching, Knows, KnowsOwnOnly
    <3>3. v # w
      BY <3>2 DEF Looping
    <3>4. p \notin Alive(c)
      BY <1>2, <3>2, <3>3 DEF Alive, ClaimOf
    <3>5. QED
      BY <3>1, <3>4
  <2>4. CASE SpawnOk(v)
    BY <2>4 DEF SpawnOk
  <2>5. CASE \/ Launch(v) \/ ReapRead(v) \/ ReapAct(v) \/ ReapEnd(v) \/ PollRead(v)
             \/ PollEnd(v) \/ RenewRead(v) \/ BeatEnd(v) \/ ClaimRun(v) \/ SpawnFail(v)
             \/ ClaimEnd(v) \/ ExitEnd(v)
    BY <2>5 DEF Launch, ReapRead, ReapAct, ReapEnd, PollRead, PollEnd, RenewRead, BeatEnd,
       ClaimRun, SpawnFail, ClaimEnd, ExitEnd
  <2>6. QED
    BY <1>6, <2>1, <2>2, <2>3, <2>4, <2>5 DEF Supervise
<1>7. ASSUME NEW q \in procs, Execute(q) PROVE AtWork(w, r)'
  <2>1. CASE q # p
    <3>1. p \in procs'
      BY <1>7, <2>1 DEF Execute, Boot, Reserve, Answer, Pause, Conclude, Error, Quit, Becomes
    <3>2. QED
      BY <1>5, <3>1
  <2>2. CASE q = p
    <3>1. ASSUME NEW at \in {"idle", "call"}, Becomes(p, at) PROVE AtWork(w, r)'
      <4>1. [p EXCEPT !.at = at] \in procs'
        BY <3>1 DEF Becomes
      <4>2. ClaimOf([p EXCEPT !.at = at]) = ClaimOf(p) /\ [p EXCEPT !.at = at].at = at
        BY <1>2 DEF ClaimOf, Process
      <4>3. QED
        BY <1>4, <4>1, <4>2
    <3>2. ~FailExecution(ClaimOf(p), FALSE)
      <4>1. SUFFICES ASSUME FailExecution(ClaimOf(p), FALSE) PROVE FALSE
        OBVIOUS
      <4>2. status' = [status EXCEPT ![p.run] = "failed"]
        BY <1>3, <4>1 DEF FailExecution, ClaimOf
      <4>3. QED
        BY <1>2, <4>2 DEF TypeOK
    <3>3. CASE Boot(p)
      BY <1>3, <3>1, <3>2, <3>3 DEF Boot
    <3>4. CASE Reserve(p)
      BY <3>1, <3>4 DEF Reserve
    <3>5. CASE Answer(p)
      <4>1. Current(p)
        BY <1>2 DEF Current
      <4>2. QED
        BY <3>1, <3>5, <4>1 DEF Answer
    <3>6. CASE Pause(p) \/ Conclude(p)
      BY <1>2, <3>6 DEF Pause, Conclude, TypeOK
    <3>7. CASE Error(p) \/ Quit(p)
      BY <1>1, <3>2, <3>7 DEF Error, Quit
    <3>8. QED
      BY <1>7, <2>2, <3>3, <3>4, <3>5, <3>6, <3>7 DEF Execute
  <2>3. QED
    BY <2>1, <2>2
<1>8. CASE \/ \E q \in Runs : Request(q)
           \/ Environment
           \/ UNCHANGED vars
  <2>1. "terminal" \notin Faults /\ "child" \notin Faults
    BY DEF Calm
  <2>2. procs' = procs
    BY <1>8, <2>1 DEF Request, Start, Resubmit, Continue, Abort, Environment, Tick, StopSignal,
       TerminalInterrupt, LoopError, Crash, ChildCrash, vars
  <2>3. QED
    BY <1>5, <2>2
<1>9. QED
  BY <1>5, <1>6, <1>7, <1>8 DEF Next

\* Only claiming makes a claim.
LEMMA StepClaims ==
  ASSUME TypeOK, IInv, Watching, [Next]_vars, ~\E w \in Workers : ClaimRun(w)
  PROVE  NoNewClaims
<1>1. ASSUME NEW w \in Workers, Supervise(w) PROVE NoNewClaims
  <2>1. Knows(w)
    BY DEF Watching
  <2>2. QED
    BY <1>1, <2>1, LookingKnows, PollKnows, SpawnKnows, EndsKnow, ExitsKnow DEF Supervise
<1>2. ASSUME NEW w \in Workers, LoopError(w) \/ Crash(w) PROVE NoNewClaims
  BY <1>2, EndsKnow DEF Watching
<1>3. CASE \/ \E r \in Runs : Request(r)
           \/ \E p \in procs : Execute(p) \/ ChildCrash(p)
           \/ \E w \in Workers : StopSignal(w) \/ TerminalInterrupt(w)
           \/ Tick \/ UNCHANGED vars
  BY <1>3, OthersClaimNothing
<1>4. QED
  BY <1>1, <1>2, <1>3 DEF Next, Environment

\* A supervisor's place in its loop is its own; nothing revives a dead one.
LEMMA PlacesAreOwn ==
  ASSUME TypeOK, [Next]_vars, NEW w \in Workers
  PROVE  \/ pc'[w] = pc[w] /\ cur'[w] = cur[w]
         \/ Supervise(w) \/ LoopError(w) \/ Crash(w)
<1>1. ASSUME NEW v \in Workers, v # w, Supervise(v) \/ LoopError(v) \/ Crash(v)
      PROVE  pc'[w] = pc[w] /\ cur'[w] = cur[w]
  BY <1>1, OneSupervisorMoves
<1>2. CASE \/ \E r \in Runs : Request(r)
           \/ \E p \in procs : Execute(p) \/ ChildCrash(p)
           \/ \E v \in Workers : StopSignal(v) \/ TerminalInterrupt(v)
           \/ Tick \/ UNCHANGED vars
  BY <1>2 DEF Request, Start, Resubmit, Continue, Abort, Execute, Boot, Reserve, Answer, Pause,
     Conclude, Error, Quit, ChildCrash, StopSignal, TerminalInterrupt, Tick, vars, supVars
<1>3. QED
  BY <1>1, <1>2 DEF Next, Environment

\* Nothing happens to a supervisor that was killed.
LEMMA DeadIsDead ==
  ASSUME TypeOK, [Next]_vars, NEW w \in Workers, pc[w] = "dead"
  PROVE  pc'[w] = "dead"
<1>1. ~Supervise(w)
  BY DEF Supervise, Launch, ReapRead, ReapAct, ReapEnd, PollRead, PollAct, PollEnd, RenewRead,
     RenewWrite, BeatEnd, ClaimRun, SpawnOk, SpawnFail, ClaimEnd, ExitOne, ExitEnd
<1>2. ~LoopError(w) /\ ~Crash(w)
  BY DEF LoopError, Crash, Looping
<1>3. QED
  BY <1>1, <1>2, PlacesAreOwn

\* Without an exception a supervisor leaves its loop where it is done, or is killed.
LEMMA LeavesLoop ==
  ASSUME TypeOK, [Next]_vars, "database" \notin Faults, NEW w \in Workers, Looping(w),
         ~Looping(w)', pc'[w] # "dead"
  PROVE  ClaimEnd(w) /\ LoopDone(w)
<1>1. Supervise(w) \/ Crash(w)
  BY PlacesAreOwn DEF Looping, LoopError
<1>2. ~Crash(w)
  BY DEF Crash, Goto, TypeOK
<1>3. ASSUME \/ Launch(w) \/ ReapRead(w) \/ ReapAct(w) \/ ReapEnd(w) \/ PollRead(w)
             \/ PollAct(w) \/ PollEnd(w) \/ RenewRead(w) \/ RenewWrite(w) \/ BeatEnd(w)
      PROVE  FALSE
  BY <1>3 DEF Launch, ReapRead, ReapAct, ReapEnd, PollRead, PollAct, PollEnd, RenewRead,
     RenewWrite, BeatEnd, Goto, Looping, TypeOK
<1>4. ASSUME \/ ClaimRun(w) \/ SpawnOk(w) \/ SpawnFail(w) \/ (ClaimEnd(w) /\ ~LoopDone(w))
             \/ ExitOne(w) \/ ExitEnd(w)
      PROVE  FALSE
  BY <1>4 DEF ClaimRun, SpawnOk, SpawnFail, ClaimEnd, ExitOne, ExitEnd, Goto, Looping, TypeOK
<1>5. QED
  BY <1>1, <1>2, <1>3, <1>4 DEF Supervise

\* Where spawning does not fail, a supervisor with a claim in its hands spawns.
LEMMA LeavesSpawn ==
  ASSUME TypeOK, [Next]_vars, Faults \intersect {"spawn", "database"} = {}, NEW w \in Workers,
         pc[w] = "spawn", pc'[w] # "dead", ~SpawnOk(w)
  PROVE  pc'[w] = pc[w] /\ cur'[w] = cur[w]
<1>1. ~Supervise(w)
  BY DEF Supervise, Launch, ReapRead, ReapAct, ReapEnd, PollRead, PollAct, PollEnd, RenewRead,
     RenewWrite, BeatEnd, ClaimRun, SpawnFail, ClaimEnd, ExitOne, ExitEnd
<1>2. ~LoopError(w) /\ ~Crash(w)
  BY DEF LoopError, Crash, Goto, TypeOK
<1>3. QED
  BY <1>1, <1>2, PlacesAreOwn

\* A claim is staffed from the claim on: its supervisor spawns the process, and
\* the process works until the claim ends or its lease runs out.
LEMMA StaffedStep ==
  ASSUME TypeOK, IInv, Watching, Calm, Staffed, [Next]_vars
  PROVE  Staffed'
<1>1. SUFFICES ASSUME NEW w \in Workers, NEW r \in Runs, Holds(w, r)', lease'[r] > 0,
                      pc'[w] # "dead"
               PROVE  \/ pc'[w] = "spawn" /\ HeldClaim(w, r)' \in cur'[w]
                      \/ Looping(w)' /\ AtWork(w, r)'
  BY DEF Staffed, Holds, Claimed, HeldClaim, AtWork, ClaimOf, Looping
<1>2. ASSUME ClaimRun(w), ~Holds(w, r)
      PROVE  pc'[w] = "spawn" /\ HeldClaim(w, r)' \in cur'[w]
  <2>1. PICK q \in Runs :
          /\ exec' = [exec EXCEPT ![q] = gen[q]] /\ worker' = [worker EXCEPT ![q] = w]
          /\ cur' = [cur EXCEPT ![w] = {[run |-> q, gen |-> gen[q], worker |-> w]}]
    BY <1>2 DEF ClaimRun
  <2>2. UNCHANGED <<status, gen>> /\ pc' = [pc EXCEPT ![w] = "spawn"]
    BY <1>2 DEF ClaimRun, Goto
  <2>3. q = r
    <3>1. \A o \in Runs \ {q} : exec'[o] = exec[o] /\ worker'[o] = worker[o]
      BY <2>1 DEF TypeOK
    <3>2. QED
      BY <1>1, <1>2, <2>2, <3>1 DEF Holds, Claimed
  <2>4. QED
    BY <2>1, <2>2, <2>3 DEF HeldClaim, TypeOK
<1>3. ASSUME NEW v \in Workers, ClaimRun(v) PROVE Holds(w, r) \/ v = w
  <2>1. PICK q \in Runs :
          exec' = [exec EXCEPT ![q] = gen[q]] /\ worker' = [worker EXCEPT ![q] = v]
    BY <1>3 DEF ClaimRun
  <2>2. UNCHANGED <<status, gen>>
    BY <1>3 DEF ClaimRun
  <2>3. CASE q = r
    <3>1. worker'[r] = v
      BY <2>1, <2>3 DEF TypeOK
    <3>2. QED
      BY <1>1, <3>1 DEF Holds
  <2>4. CASE q # r
    <3>1. exec'[r] = exec[r] /\ worker'[r] = worker[r]
      BY <2>1, <2>4 DEF TypeOK
    <3>2. QED
      BY <1>1, <2>2, <3>1 DEF Holds, Claimed
  <2>5. QED
    BY <2>3, <2>4
<1>4. CASE Holds(w, r)
  <2>1. HeldClaim(w, r)' = HeldClaim(w, r) /\ lease[r] > 0
    <3>1. CASE \E v \in Workers : ClaimRun(v)
      <4>1. PICK v \in Workers : ClaimRun(v)
        BY <3>1
      <4>2. PICK q \in Runs : /\ exec[q] # gen[q]
                              /\ lease' = [lease EXCEPT ![q] = LeaseTicks]
        BY <4>1 DEF ClaimRun, MayClaim, Claimable
      <4>3. q # r
        BY <1>4, <4>2 DEF Holds, Claimed
      <4>4. lease'[r] = lease[r] /\ gen' = gen
        BY <4>1, <4>2, <4>3 DEF TypeOK, ClaimRun
      <4>5. QED
        BY <1>1, <4>4 DEF HeldClaim
    <3>2. CASE ~\E v \in Workers : ClaimRun(v)
      <4>1. NoNewClaims
        BY <3>2, StepClaims
      <4>2. lease[r] > 0
        BY <1>1, <3>2, LeasesRunOut DEF Calm
      <4>3. QED
        BY <1>1, <4>1, <4>2, HoldsPass
    <3>3. QED
      BY <3>1, <3>2
  <2>2. pc[w] # "dead"
    <3>1. pc[w] = "dead" => pc'[w] = "dead"
      BY DeadIsDead
    <3>2. QED
      BY <1>1, <3>1
  <2>3. \/ pc[w] = "spawn" /\ HeldClaim(w, r) \in cur[w]
        \/ Looping(w) /\ AtWork(w, r)
    BY <1>4, <2>1, <2>2 DEF Staffed
  <2>4. CASE Looping(w) /\ AtWork(w, r)
    <3>1. AtWork(w, r)'
      BY <1>1, <1>4, <2>1, <2>4, WorkGoesOn
    <3>2. Looping(w)'
      <4>1. SUFFICES ASSUME ~Looping(w)' PROVE FALSE
        OBVIOUS
      <4>2. ClaimEnd(w) /\ LoopDone(w)
        BY <1>1, <2>4, <4>1, LeavesLoop DEF Calm
      <4>3. children[w] = {} /\ pc[w] = "claim"
        BY <4>2 DEF Calm, LoopDone, ClaimEnd
      <4>4. QED
        BY <1>4, <2>4, <4>3 DEF Watching, Knows, LoopKnows
    <3>3. QED
      BY <3>1, <3>2
  <2>5. CASE pc[w] = "spawn" /\ HeldClaim(w, r) \in cur[w]
    <3>1. CASE SpawnOk(w)
      <4>1. PICK c \in cur[w] :
              procs' = procs \union {[run |-> c.run, gen |-> c.gen, worker |-> w, at |-> "boot"]}
        BY <3>1 DEF SpawnOk
      <4>2. c = HeldClaim(w, r)
        BY <2>5, <4>1 DEF Watching, Knows, KnowsOwnOnly
      <4>3. [run |-> r, gen |-> gen[r], worker |-> w, at |-> "boot"] \in procs'
        BY <4>1, <4>2 DEF HeldClaim
      <4>4. AtWork(w, r)'
        BY <2>1, <4>3 DEF AtWork, ClaimOf, HeldClaim
      <4>5. pc'[w] = "claim"
        BY <3>1 DEF SpawnOk, Goto, TypeOK
      <4>6. QED
        BY <4>4, <4>5 DEF Looping
    <3>2. CASE ~SpawnOk(w)
      <4>1. pc'[w] = pc[w] /\ cur'[w] = cur[w]
        BY <1>1, <2>5, <3>2, LeavesSpawn DEF Calm
      <4>2. QED
        BY <2>1, <2>5, <4>1
    <3>3. QED
      BY <3>1, <3>2
  <2>6. QED
    BY <2>3, <2>4, <2>5
<1>5. CASE ~Holds(w, r)
  <2>1. \E v \in Workers : ClaimRun(v)
    <3>1. SUFFICES ASSUME ~\E v \in Workers : ClaimRun(v) PROVE FALSE
      OBVIOUS
    <3>2. NoNewClaims
      BY <3>1, StepClaims
    <3>3. QED
      BY <1>1, <1>5, <3>2, HoldsPass
  <2>2. ClaimRun(w)
    BY <1>3, <1>5, <2>1
  <2>3. QED
    BY <1>2, <1>5, <2>2
<1>6. QED
  BY <1>4, <1>5

\* A calm system lets a run that is executed and in its time end at a boundary its
\* executor reaches, also after its supervisor was told to stop
\* (run_investigation_worker: request_stop; SETUP.md 337-338).
THEOREM StopsReachBoundaries ==
  ASSUME Calm
  PROVE  Spec => StopReachesBoundary
<1>1. ASSUME TypeOK, IInv, Watching, Staffed, Next, NEW r \in Runs,
             status[r] = "running", exec[r] = gen[r], worker[r] \in Workers, lease[r] > 0,
             age[r] <= RuntimeTicks, status'[r] = "failed"
      PROVE  \E p \in procs : /\ p.run = r /\ p.gen = gen[r]
                              /\ [p EXCEPT !.at = "done"] \in procs'
  <2>1. PICK w \in Workers : w = worker[r]
    BY <1>1
  <2>2. Holds(w, r)
    BY <1>1, <2>1 DEF Holds, Claimed
  <2>3. ASSUME NEW c \in Claim, NEW only \in BOOLEAN, FailExecution(c, only)
        PROVE  c = HeldClaim(w, r) /\ ~only /\ MayFail(c, only)
    <3>1. c.run = r /\ MayFail(c, only)
      BY <1>1, <2>3, FailsItsOwn
    <3>2. c = [run |-> c.run, gen |-> c.gen, worker |-> c.worker]
      BY DEF Claim
    <3>3. c.gen = gen[r] /\ c.worker = w
      BY <2>1, <3>1 DEF MayFail
    <3>4. ~(lease[r] <= 0)
      <4>1. lease[r] \in Int
        BY <1>1, ConstantsAssumption DEF TypeOK, Expired
      <4>2. QED
        BY <1>1, <4>1
    <3>5. QED
      BY <3>1, <3>2, <3>3, <3>4 DEF HeldClaim, MayFail
  <2>4. ASSUME UNCHANGED status PROVE FALSE
    BY <1>1, <2>4
  <2>5. ASSUME NEW q \in Runs, Request(q) PROVE FALSE
    <3>1. \A o \in Runs : status[o] = "running" => status'[o] # "failed"
      BY <1>1, <2>5 DEF Request, Start, Resubmit, Continue, Abort, TypeOK
    <3>2. QED
      BY <1>1, <3>1
  <2>6. ASSUME NEW v \in Workers, Supervise(v) PROVE FALSE
    <3>1. CASE ReapAct(v)
      <4>1. PICK c \in todo[v] : FailExecution(c, TRUE)
        BY <3>1 DEF ReapAct
      <4>2. c \in Claim
        BY <1>1 DEF TypeOK
      <4>3. QED
        BY <2>3, <4>1, <4>2
    <3>2. CASE PollAct(v)
      <4>1. PICK c \in cur[v] :
              IF Settled(v, c)
              THEN IF stale[v] THEN UNCHANGED runVars ELSE FailExecution(c, FALSE)
              ELSE UNCHANGED runVars
        BY <3>2 DEF PollAct
      <4>2. c \in Claim /\ c.worker = v /\ pc[v] = "polled"
        BY <1>1, <3>2 DEF TypeOK, Watching, Knows, KnowsOwnOnly, PollAct
      <4>3. UNCHANGED runVars => FALSE
        BY <2>4 DEF runVars
      <4>4. Settled(v, c) /\ ~stale[v] /\ FailExecution(c, FALSE)
        BY <4>1, <4>3
      <4>5. c = HeldClaim(w, r) /\ v = w /\ c.run = r
        <5>1. c = HeldClaim(w, r)
          BY <2>3, <4>2, <4>4
        <5>2. HeldClaim(w, r).worker = w /\ HeldClaim(w, r).run = r
          BY DEF HeldClaim
        <5>3. QED
          BY <4>2, <5>1, <5>2
      <4>6. AtWork(w, r)
        BY <1>1, <2>2, <4>2, <4>5 DEF Staffed
      <4>7. Alive(c) # {}
        BY <4>5, <4>6 DEF AtWork, Alive
      <4>8. ~(age[c.run] > RuntimeTicks)
        <5>1. age[r] \in Nat /\ RuntimeTicks \in Nat
          BY <1>1, ConstantsAssumption DEF TypeOK
        <5>2. QED
          BY <1>1, <4>5, <5>1
      <4>9. QED
        BY <4>4, <4>7, <4>8 DEF Settled
    <3>3. CASE SpawnFail(v)
      BY <3>3 DEF SpawnFail, Calm
    <3>4. CASE ExitOne(v)
      <4>1. PICK c \in todo[v] : FailExecution(c, FALSE) \/ UNCHANGED runVars
        BY <3>4 DEF ExitOne, Fence
      <4>2. c \in Claim /\ pc[v] = "exit" /\ c.worker = v
        BY <1>1, <3>4 DEF TypeOK, ExitOne, Watching, Knows, KnowsOwnOnly
      <4>3. c = HeldClaim(w, r)
        BY <2>3, <2>4, <4>1, <4>2 DEF runVars
      <4>4. v = w
        BY <4>2, <4>3 DEF HeldClaim
      <4>5. QED
        BY <1>1, <2>2, <4>2, <4>4 DEF Staffed, Looping
    <3>5. CASE \/ Launch(v) \/ ReapRead(v) \/ ReapEnd(v) \/ PollRead(v) \/ PollEnd(v)
               \/ RenewRead(v) \/ RenewWrite(v) \/ BeatEnd(v) \/ ClaimRun(v) \/ SpawnOk(v)
               \/ ClaimEnd(v) \/ ExitEnd(v)
      BY <2>4, <3>5 DEF Launch, ReapRead, ReapEnd, PollRead, PollEnd, RenewRead, RenewWrite,
         BeatEnd, ClaimRun, SpawnOk, ClaimEnd, ExitEnd, runVars
    <3>6. QED
      BY <2>6, <3>1, <3>2, <3>3, <3>4, <3>5 DEF Supervise
  <2>7. ASSUME NEW q \in procs, Execute(q)
        PROVE  q.run = r /\ q.gen = gen[r] /\ [q EXCEPT !.at = "done"] \in procs'
    <3>1. q \in Process /\ ClaimOf(q) \in Claim
      BY <1>1 DEF TypeOK, Process, ClaimOf, Claim
    <3>2. ASSUME FailExecution(ClaimOf(q), FALSE), Becomes(q, "done")
          PROVE  q.run = r /\ q.gen = gen[r] /\ [q EXCEPT !.at = "done"] \in procs'
      BY <2>3, <3>1, <3>2 DEF HeldClaim, ClaimOf, Becomes
    <3>3. CASE Boot(q) \/ Error(q)
      BY <2>4, <3>2, <3>3 DEF Boot, Error, runVars
    <3>4. CASE Conclude(q)
      <4>1. Owns(q) /\ Becomes(q, "done") /\ \A o \in Runs : o # q.run => status'[o] = status[o]
        BY <1>1, <3>4 DEF Conclude, TypeOK
      <4>2. q.run = r
        BY <1>1, <4>1
      <4>3. QED
        BY <4>1, <4>2 DEF Owns, Becomes
    <3>5. CASE Reserve(q) \/ Answer(q) \/ Quit(q)
      BY <2>4, <3>5 DEF Reserve, Answer, Quit, runVars
    <3>6. CASE Pause(q)
      <4>1. \A o \in Runs : status'[o] \in {status[o], "waiting_human"}
        BY <1>1, <3>6 DEF Pause, TypeOK
      <4>2. QED
        BY <1>1, <4>1
    <3>7. QED
      BY <2>7, <3>3, <3>4, <3>5, <3>6 DEF Execute
  <2>8. ASSUME Environment PROVE FALSE
    BY <2>4, <2>8 DEF Environment, Tick, StopSignal, TerminalInterrupt, LoopError, Crash,
       ChildCrash, runVars
  <2>9. QED
    BY <1>1, <2>5, <2>6, <2>7, <2>8 DEF Next
<1>2. TypeOK /\ IInv /\ Watching /\ Staffed /\ [Next]_vars =>
        [\A r \in Runs :
           /\ status[r] = "running" /\ exec[r] = gen[r]
           /\ worker[r] \in Workers /\ stopping[worker[r]]
           /\ lease[r] > 0
           /\ age[r] <= RuntimeTicks
           /\ status'[r] = "failed"
           => \E p \in procs : /\ p.run = r /\ p.gen = gen[r]
                               /\ [p EXCEPT !.at = "done"] \in procs']_vars
  BY <1>1
<1>3. Init => Staffed
  BY ConstantsAssumption DEF Init, Staffed, Holds
<1>4. TypeOK /\ IInv /\ Watching /\ Staffed /\ [Next]_vars => Staffed'
  BY StaffedStep
<1>5. Spec => []Staffed
  BY <1>3, <1>4, TypeCorrect, Discipline, ClaimsAreKnown, PTL DEF Spec
<1>6. QED
  BY <1>2, <1>5, TypeCorrect, Discipline, ClaimsAreKnown, PTL DEF Spec, StopReachesBoundary

==============================================================================
