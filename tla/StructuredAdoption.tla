------------------------ MODULE StructuredAdoption ------------------------
(* Suggestions that belong together: structured_review.py,                 *)
(* structured_adoption_orchestrator.py and the metric, stage and process   *)
(* adoption it calls.                                                      *)
(*                                                                         *)
(* An analysis of a use case suggests a metric, one of a value stream a    *)
(* stage and a process in it.  They are reviewed one by one in a batch and *)
(* committed together.  Deciding an item is one transaction.  A commit is  *)
(* a request of several: it reads the batch and checks it, reserves it,    *)
(* executes it, and records a failure; it may end between any two of them. *)
EXTENDS CaptureAnalysis

CONSTANTS
  Requests,   \* requests that commit a batch
  Values,     \* metric values, and positions of a stage
  People      \* who else adds stages

ASSUME ValuesAssumption ==
  /\ People \notin Analyses
  /\ \A g \in Suggestions : g.value \in Values

VARIABLES
  batch,      \* StructuredAdoptionBatch with its items, of each analysis
  request,    \* the commit requests: where they are, their batch and key
  metric,     \* the metric of the use case
  stages,     \* stages of the value stream: position and who made them
  processes   \* process analyses: who made them, and the maker of the stage

structuredVars == <<batch, request, metric, stages, processes>>

Parts == [use_case |-> {"metric"}, value_stream |-> {"stage", "process"}]
AllParts == {"metric", "stage", "process"}

\* depends_on and stage_reference: the new stage of the batch or one there is.
References == {"none", "local", "existing"}

NoItem == [status |-> "none", value |-> 0, ref |-> "none"]
NoBatch == [status |-> "none", kind |-> "none", shown |-> 0,
            items |-> [p \in AllParts |-> NoItem]]
Idle == [at |-> "idle", analysis |-> NoSession, key |-> NoBatch.items]

ItemStates == {"none", "open", "ambiguous", "confirmed", "rejected",
               "dependency_invalid", "adopted"}

StructuredTypeOK ==
  /\ CaptureTypeOK
  /\ batch \in [Analyses ->
       [status : {"none", "open", "processing", "committed", "failed",
                  "conflict", "stale"},
        kind : Kinds \union {"none"},
        shown : Values \union {0},
        items : [AllParts -> [status : ItemStates,
                              value : Values \union {0}, ref : References]]]]
  /\ \A q \in Requests :
       /\ request[q].at \in {"idle", "read", "ready", "reserved", "failed",
                             "conflict", "stale"}
       /\ request[q].at # "idle" => request[q].analysis \in Analyses
  /\ metric \in Values
  /\ stages \subseteq [at : Values, by : Analyses \union {People}]
  /\ processes \subseteq [by : Analyses, in : Analyses \union {People}]

StructuredInit ==
  /\ CaptureInit
  /\ batch = [a \in Analyses |-> NoBatch]
  /\ request = [q \in Requests |-> Idle]
  /\ metric \in Values
  /\ stages = {}
  /\ processes = {}

Occupied == {st.at : st \in stages}

----------------------------------------------------------------------------
(* Review *)

\* _assert_analysis_reviewable; the status of the capture is not looked at.
Reviewable(a) ==
  /\ analysis[a].status = "success"
  /\ analysis[a].session # NoSession
  /\ session[analysis[a].session].bound
  /\ session[analysis[a].session].revision = analysis[a].revision

\* get_or_create_review_batch with the items and the seal.
OpenReview(a) ==
  LET k == TargetOf(analysis[a].session)
      g == analysis[a].suggests
  IN
  /\ batch[a].status = "none"
  /\ Reviewable(a)
  /\ batch' = [batch EXCEPT ![a] =
       [status |-> "open", kind |-> k,
        shown |-> IF k = "use_case" THEN metric ELSE 0,
        items |-> [p \in AllParts |->
          IF p \notin Parts[k] THEN NoItem
          ELSE [status |-> IF g.level = "low" THEN "open" ELSE "ambiguous",
                value |-> IF p = "process" THEN 0 ELSE g.value,
                ref |-> "none"]]]]
  /\ UNCHANGED <<request, metric, stages, processes>>

\* _assert_batch_editable: the capture is still there, and nobody commits the
\* batch.
Decidable(a) ==
  /\ batch[a].status \in {"open", "failed", "conflict", "stale"}
  /\ analysis[a].session # NoSession

\* _seal_batch: the key of the batch is a hash over its items, so the items
\* stand for it.  A batch that failed is open again.
Sealed(a, items) ==
  [batch EXCEPT ![a].items = items, ![a].status = "open"]

\* cascade_invalidate_stage_dependents: what depends on a rejected stage has
\* to be decided again, be it confirmed or rejected.
Cascaded(items) ==
  IF items["process"].ref = "local" /\ items["process"].status # "adopted"
  THEN [items EXCEPT !["process"].status = "dependency_invalid"]
  ELSE items

Rejected(a, p) == [batch[a].items EXCEPT ![p].status = "rejected"]

RejectItem(a, p) ==
  /\ Decidable(a)
  /\ p \in Parts[batch[a].kind]
  /\ batch' = Sealed(a, IF p = "stage" THEN Cascaded(Rejected(a, p))
                                       ELSE Rejected(a, p))
  /\ UNCHANGED <<request, metric, stages, processes>>

\* _set_process_reference
Referable(a, r) ==
  \/ r = "existing" /\ stages # {}
  \/ r = "local" /\ batch[a].items["stage"].status
                      \in {"open", "confirmed", "adopted"}

\* A clear suggestion is confirmed as it is, an ambiguous one has to be edited,
\* if only to the value it has: any value may be confirmed.
ConfirmItem(a, p, v, r) ==
  /\ Decidable(a)
  /\ p \in Parts[batch[a].kind]
  /\ IF p = "process" THEN v = 0 /\ Referable(a, r)
                      ELSE v \in Values /\ r = "none"
  /\ batch' = Sealed(a, [batch[a].items EXCEPT
       ![p] = [status |-> "confirmed", value |-> v, ref |-> r]])
  /\ UNCHANGED <<request, metric, stages, processes>>

----------------------------------------------------------------------------
(* Commit *)

Chosen(items) == {p \in AllParts : items[p].status = "confirmed"}

\* review_batch_ready, and _assert_item_graph when it is executed.
Ready(items) ==
  /\ Chosen(items) # {}
  /\ \A p \in AllParts : items[p].status \in {"none", "confirmed", "rejected"}
  /\ "process" \in Chosen(items) /\ items["process"].ref = "local"
       => "stage" \in Chosen(items)

At(q, place) == [request EXCEPT ![q].at = place]

\* commit_review_batch reads the batch with its key ...
ReadBatch(q, a) ==
  /\ request[q] = Idle
  /\ Decidable(a)
  /\ batch[a].status \in {"open", "failed"}
  /\ request' = [request EXCEPT
       ![q] = [at |-> "read", analysis |-> a, key |-> batch[a].items]]
  /\ UNCHANGED <<batch, metric, stages, processes>>

\* ... and then the items.
CheckReady(q) ==
  /\ request[q].at = "read"
  /\ request' = IF Ready(batch[request[q].analysis].items)
                THEN At(q, "ready") ELSE [request EXCEPT ![q] = Idle]
  /\ UNCHANGED <<batch, metric, stages, processes>>

\* Faulty variant of SameKey: the key is not compared.
AnyKey(q) == request[q].at \in {"ready", "reserved"}

\* _assert_batch_identity
SameKey(q) == request[q].key = batch[request[q].analysis].items

\* _RETRYABLE_BATCH_STATES
Retryable(a) == batch[a].status \in {"open", "failed"}

\* _reserve_batch.  A committed batch is replayed, any other that is not open
\* or failed is refused; both leave it as it is.
Reserve(q) ==
  LET a == request[q].analysis IN
  /\ request[q].at = "ready"
  /\ IF SameKey(q) /\ Retryable(a)
     THEN /\ batch' = [batch EXCEPT ![a].status = "processing"]
          /\ request' = At(q, "reserved")
     ELSE /\ request' = [request EXCEPT ![q] = Idle]
          /\ UNCHANGED batch
  /\ UNCHANGED <<metric, stages, processes>>

\* adopt_metric_items.  Faulty variant: the snapshot is not compared.
AnyMetric(a) == batch[a].shown \in Values
MetricAsShown(a) == batch[a].shown = metric

\* prepare_stage_forms
PlaceFree(a) ==
  "stage" \in Chosen(batch[a].items)
    => batch[a].items["stage"].value \notin Occupied

\* structured_metric_adoption, structured_stage_adoption and
\* structured_process_adoption can do what was confirmed.
Executable(a) ==
  IF batch[a].kind = "use_case" THEN MetricAsShown(a) ELSE PlaceFree(a)

NewStages(a) ==
  IF "stage" \in Chosen(batch[a].items)
  THEN {[at |-> batch[a].items["stage"].value, by |-> a]} ELSE {}

\* The process hangs under the new stage or one of those there are.
NewProcesses(a, st) ==
  IF "process" \in Chosen(batch[a].items)
  THEN {[by |-> a, in |-> st.by]} ELSE {}

StageChoice(a) ==
  IF batch[a].items["process"].ref = "existing" THEN stages
  ELSE NewStages(a)

\* Items that were confirmed are adopted.
Adopted(items) ==
  [p \in AllParts |->
    IF p \in Chosen(items) THEN [items[p] EXCEPT !.status = "adopted"]
    ELSE items[p]]

\* The domain writes of _execute_reserved_batch.
Effects(a) ==
  /\ metric' = IF "metric" \in Chosen(batch[a].items)
               THEN batch[a].items["metric"].value ELSE metric
  /\ stages' = stages \union NewStages(a)
  /\ IF "process" \in Chosen(batch[a].items)
     THEN \E st \in StageChoice(a) :
            processes' = processes \union NewProcesses(a, st)
     ELSE UNCHANGED processes

\* The capture of the batch, unless it is gone, is the one it was made from.
SnapshotHolds(a) ==
  analysis[a].session # NoSession => Reviewable(a)

\* _execute_reserved_batch, one transaction: all of it or nothing.
Execute(q) ==
  LET a == request[q].analysis IN
  /\ request[q].at = "reserved"
  /\ SameKey(q) /\ batch[a].status = "processing"
  /\ SnapshotHolds(a) /\ Ready(batch[a].items) /\ Executable(a)
  /\ Effects(a)
  /\ batch' = [batch EXCEPT ![a].status = "committed",
                            ![a].items = Adopted(@)]
  /\ request' = [request EXCEPT ![q] = Idle]

\* Faulty variant: the stage is saved outside the transaction.
KeepsTheStage(a) ==
  /\ stages' = IF PlaceFree(a) THEN stages \union NewStages(a) ELSE stages
  /\ UNCHANGED <<metric, processes>>

\* The transaction of _execute_reserved_batch takes all its writes back.
RolledBack(a) == UNCHANGED <<metric, stages, processes>>

\* The failure is classified by _failure_status.  A right that was lost or a
\* value that a form refuses may fail any commit.
ExecuteFails(q) ==
  LET a == request[q].analysis IN
  /\ request[q].at = "reserved"
  /\ \/ request' = At(q, "failed")
     \/ ~SnapshotHolds(a) /\ request' = At(q, "stale")
     \/ ~Executable(a) /\ request' = At(q, "conflict")
  /\ RolledBack(a)
  /\ UNCHANGED batch

\* _record_failure, in a transaction of its own.
RecordFailure(q) ==
  LET a == request[q].analysis IN
  /\ request[q].at \in {"failed", "conflict", "stale"}
  /\ batch' = IF batch[a].status = "committed" THEN batch
              ELSE [batch EXCEPT ![a].status = request[q].at]
  /\ request' = [request EXCEPT ![q] = Idle]
  /\ UNCHANGED <<metric, stages, processes>>

\* The request ends before its next step.
Vanish(q) ==
  /\ request[q] # Idle
  /\ request' = [request EXCEPT ![q] = Idle]
  /\ UNCHANGED <<batch, metric, stages, processes>>

\* People change the metric in the form of the use case and add stages.
SetMetric(v) ==
  /\ metric # v
  /\ metric' = v
  /\ UNCHANGED <<batch, request, stages, processes>>

AddStage(v) ==
  /\ v \notin Occupied
  /\ stages' = stages \union {[at |-> v, by |-> People]}
  /\ UNCHANGED <<batch, request, metric, processes>>

\* purge_expired_sessions runs days after the capture expired, when no request
\* of that time is at work.
PurgeCapture(s) ==
  /\ \A q \in Requests : request[q].analysis \notin AnalysesOf(s)
  /\ Purge(s)

StructuredNext ==
  \/ /\ \/ CaptureNext
        \/ \E a \in Analyses, g \in Suggestions : StoreSuggestions(a, g)
        \/ \E s \in Sessions : PurgeCapture(s)
     /\ UNCHANGED structuredVars
  \/ /\ \/ \E a \in Analyses :
            \/ OpenReview(a)
            \/ \E p \in AllParts :
                 \/ RejectItem(a, p)
                 \/ \E v \in Values \union {0}, r \in References :
                      ConfirmItem(a, p, v, r)
        \/ \E q \in Requests :
             \/ \E a \in Analyses : ReadBatch(q, a)
             \/ CheckReady(q) \/ Reserve(q) \/ Execute(q) \/ ExecuteFails(q)
             \/ RecordFailure(q) \/ Vanish(q)
        \/ \E v \in Values : SetMetric(v) \/ AddStage(v)
     /\ UNCHANGED captureVars

StructuredSpec ==
  StructuredInit /\ [][StructuredNext]_<<captureVars, structuredVars>>

----------------------------------------------------------------------------
(* Properties *)

\* A commit writes the items that the request found decided when it read the
\* batch, not those another tab has made of them since (the idempotency key
\* is compared again under the lock).
CommitsWhatWasRead ==
  [][\A a \in Analyses :
       batch[a].status = "processing" /\ batch'[a].status = "committed"
       => \E q \in Requests :
            /\ request[q].at = "reserved" /\ request[q].analysis = a
            /\ request[q].key = batch[a].items]_<<captureVars, structuredVars>>

MadeStages(a) == {st \in stages : st.by = a}
MadeProcesses(a) == {pr \in processes : pr.by = a}

\* structured_views.py:118 "Es wurden keine Teilobjekte gespeichert": the
\* objects of a batch exist together and once if it is committed, and none of
\* them exists, nor is any item adopted, before.
AllOrNothing ==
  \A a \in Analyses :
    LET has(p) == batch[a].items[p].status = "adopted" IN
    /\ \A p \in AllParts : has(p) => batch[a].status = "committed"
    /\ Cardinality(MadeStages(a)) = (IF has("stage") THEN 1 ELSE 0)
    /\ Cardinality(MadeProcesses(a)) = (IF has("process") THEN 1 ELSE 0)
    /\ batch[a].status = "committed" => Chosen(batch[a].items) = {}
    /\ \A pr \in MadeProcesses(a) :
         batch[a].items["process"].ref = "local" => pr.in = a

\* A metric that people changed after the review showed it is not overwritten
\* by a commit.
OverwritesOnlyWhatWasShown ==
  [][\A a \in Analyses :
       /\ batch[a].status = "processing" /\ batch'[a].status = "committed"
       /\ "metric" \in Chosen(batch[a].items)
       => batch[a].shown = metric]_<<captureVars, structuredVars>>
============================================================================
