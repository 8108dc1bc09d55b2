----------------------- MODULE StructuredAdoptionProofs -----------------------
(***************************************************************************)
(* Theorems about StructuredAdoption for any captures, analyses, requests, *)
(* values and suggestions.                                                 *)
(***************************************************************************)
EXTENDS StructuredAdoption, CaptureAnalysisProofs, FiniteSetTheorems

----------------------------------------------------------------------------
(* The inductive invariant. *)

Item == [status : ItemStates, value : Values \union {0}, ref : References]

BatchRow ==
  [status : {"none", "open", "processing", "committed", "failed", "conflict", "stale"},
   kind : Kinds \union {"none"}, shown : Values \union {0}, items : [AllParts -> Item]]

RequestRow ==
  [at : {"idle", "read", "ready", "reserved", "failed", "conflict", "stale"},
   analysis : Analyses \union {NoSession}, key : [AllParts -> Item]]

\* A metric belongs to a use case, what is confirmed has a value a form takes,
\* and items are adopted with their batch or not at all.
BatchOK(b) ==
  /\ b \in BatchRow
  /\ b.status # "none" => b.kind \in Kinds
  /\ b.items["metric"].status # "none" => b.kind = "use_case"
  /\ \A p \in {"metric", "stage"} : b.items[p].status = "confirmed" => b.items[p].value \in Values
  /\ \A p \in AllParts : b.items[p].status = "adopted" => b.status = "committed"
  /\ b.status = "committed" => Chosen(b.items) = {}

Has(a, p) == batch[a].items[p].status = "adopted"

\* What a batch has made: stated with the sets themselves, for nothing follows
\* from the cardinality of a set that may be infinite.
MadeOK(a) ==
  /\ IF Has(a, "stage") THEN \E st : MadeStages(a) = {st} ELSE MadeStages(a) = {}
  /\ IF Has(a, "process") THEN \E pr : MadeProcesses(a) = {pr} ELSE MadeProcesses(a) = {}
  /\ \A pr \in MadeProcesses(a) : batch[a].items["process"].ref = "local" => pr.in = a

RequestsOK ==
  /\ request \in [Requests -> RequestRow]
  /\ \A q \in Requests : request[q].at # "idle" => request[q].analysis \in Analyses

ObjectsOK ==
  /\ metric \in Values
  /\ stages \subseteq [at : Values, by : Analyses \union {People}]
  /\ processes \subseteq [by : Analyses, in : Analyses \union {People}]

BatchesOK ==
  /\ batch \in [Analyses -> BatchRow]
  /\ \A a \in Analyses : BatchOK(batch[a]) /\ MadeOK(a)

BInv == CInv /\ RequestsOK /\ ObjectsOK /\ BatchesOK

\* A request works on a batch that exists.
RequestsHaveBatch ==
  \A q \in Requests : request[q].at # "idle" => batch[request[q].analysis].status # "none"

SInv == BInv /\ RequestsHaveBatch

----------------------------------------------------------------------------
(* Single steps. *)

\* The items of a batch, one by one.
LEMMA ThreeParts == AllParts = {"metric", "stage", "process"}
BY DEF AllParts

\* The first state.
LEMMA InitialBatches ==
  ASSUME StructuredInit
  PROVE  BInv
<1>1. CInv
  BY InitialCaptures DEF StructuredInit
<1>2. NoItem \in Item /\ NoItem.status = "none"
  BY DEF NoItem, Item, ItemStates, References
<1>3. /\ NoBatch \in BatchRow /\ NoBatch.status = "none"
      /\ \A p \in AllParts : NoBatch.items[p] = NoItem
      /\ Idle \in RequestRow /\ Idle.at = "idle"
  BY <1>2 DEF NoBatch, BatchRow, Idle, RequestRow
<1>4. RequestsOK
  BY <1>3 DEF StructuredInit, RequestsOK
<1>5. ObjectsOK
  BY DEF StructuredInit, ObjectsOK
<1>6. BatchOK(NoBatch)
  BY <1>2, <1>3 DEF BatchOK, AllParts
<1>7. \A a \in Analyses : MadeOK(a)
  BY <1>2, <1>3 DEF StructuredInit, MadeOK, Has, MadeStages, MadeProcesses, AllParts
<1>8. BatchesOK
  BY <1>3, <1>6, <1>7 DEF StructuredInit, BatchesOK
<1>9. QED
  BY <1>1, <1>4, <1>5, <1>8 DEF BInv

\* Rewriting a batch that is not committed to another such batch.
LEMMA BatchStepKeeps ==
  ASSUME BInv, NEW a \in Analyses, NEW new, BatchOK(new),
         batch' = [batch EXCEPT ![a] = new],
         batch[a].status # "committed", new.status # "committed",
         UNCHANGED <<metric, stages, processes>>
  PROVE  BatchesOK' /\ ObjectsOK'
<1>1. ObjectsOK'
  BY DEF BInv, ObjectsOK
<1>2. new \in BatchRow /\ batch \in [Analyses -> BatchRow]
  BY DEF BatchOK, BInv, BatchesOK
<1>3. /\ batch' \in [Analyses -> BatchRow] /\ batch'[a] = new
      /\ \A b \in Analyses : b # a => batch'[b] = batch[b]
  BY <1>2
<1>4. \A b \in Analyses : BatchOK(batch'[b])
  BY <1>3 DEF BInv, BatchesOK
<1>5. \A p \in AllParts : ~Has(a, p) /\ ~Has(a, p)'
  BY <1>3 DEF BInv, BatchesOK, BatchOK, Has
<1>6. MadeStages(a) = {} /\ MadeProcesses(a) = {}
  BY <1>5 DEF BInv, BatchesOK, MadeOK, AllParts
<1>7. \A b \in Analyses : MadeStages(b)' = MadeStages(b) /\ MadeProcesses(b)' = MadeProcesses(b)
  BY DEF MadeStages, MadeProcesses
<1>8. ASSUME NEW b \in Analyses PROVE MadeOK(b)'
  <2>1. CASE b = a
    BY <1>5, <1>6, <1>7, <2>1 DEF MadeOK, AllParts
  <2>2. CASE b # a
    BY <1>3, <1>7, <2>2, ZenonT(40) DEF BInv, BatchesOK, MadeOK, Has
  <2>3. QED
    BY <2>1, <2>2
<1>9. BatchesOK'
  BY <1>3, <1>4, <1>8 DEF BatchesOK
<1>10. QED
  BY <1>1, <1>9

\* What leaves batches and objects alone.
LEMMA BatchesStay ==
  ASSUME BInv, UNCHANGED <<batch, metric, stages, processes>>
  PROVE  BatchesOK' /\ ObjectsOK'
BY DEF BInv, BatchesOK, ObjectsOK, MadeOK, Has, MadeStages, MadeProcesses

With(b, items, st) == [b EXCEPT !.items = items, !.status = st]

\* A row of the batches with other items and another status.
LEMMA BatchWith ==
  ASSUME NEW b, BatchOK(b), NEW items \in [AllParts -> Item],
         NEW st \in {"open", "processing", "failed", "conflict", "stale"},
         b.status \notin {"none", "committed"},
         items["metric"].status # "none" => b.kind = "use_case",
         \A p \in {"metric", "stage"} : items[p].status = "confirmed" => items[p].value \in Values,
         \A p \in AllParts : items[p].status # "adopted"
  PROVE  BatchOK(With(b, items, st)) /\ With(b, items, st).status = st
<1> DEFINE new == With(b, items, st)
<1>1. b \in BatchRow
  BY DEF BatchOK
<1>2. new \in BatchRow /\ new.items = items /\ new.status = st /\ new.kind = b.kind
  BY <1>1 DEF BatchRow, With
<1> HIDE DEF new
<1>3. BatchOK(new) /\ new.status = st
  BY <1>2 DEF BatchOK
<1>4. QED
  BY <1>3 DEF new

\* A review opens with what the analysis suggests.
LEMMA OpenReviewKeeps ==
  ASSUME BInv, NEW a \in Analyses, OpenReview(a), UNCHANGED captureVars
  PROVE  BInv'
<1> DEFINE k == TargetOf(analysis[a].session)
           g == analysis[a].suggests
           item(p) == IF p \notin Parts[k] THEN NoItem
                      ELSE [status |-> IF g.level = "low" THEN "open" ELSE "ambiguous",
                            value |-> IF p = "process" THEN 0 ELSE g.value, ref |-> "none"]
           new == [status |-> "open", kind |-> k, shown |-> IF k = "use_case" THEN metric ELSE 0,
                   items |-> [p \in AllParts |-> item(p)]]
<1>1. k \in Kinds /\ g \in Suggestions
  BY DEF OpenReview, Reviewable, TargetOf, BInv, CInv, CaptureTypeOK, AnalysesBelong
<1>2. g.value \in Values
  BY <1>1, ValuesAssumption
<1> HIDE DEF k, g
<1>3. \A p \in AllParts : item(p) \in Item /\ item(p).status \in {"none", "open", "ambiguous"}
  BY <1>2 DEF Item, NoItem, ItemStates, References
<1>4. item("metric").status # "none" => k = "use_case"
  <2>1. k \in {"use_case", "value_stream"}
    BY <1>1, CaptureAssumption
  <2>2. k = "value_stream" => "metric" \notin Parts[k]
    BY DEF Parts
  <2>3. QED
    BY <2>1, <2>2 DEF NoItem
<1> HIDE DEF item
<1>5. new \in BatchRow
  BY <1>1, <1>3 DEF BatchRow, BInv, ObjectsOK
<1>6. /\ new.status = "open" /\ new.kind = k
      /\ \A p \in AllParts : new.items[p] = item(p)
  OBVIOUS
<1>7. batch' = [batch EXCEPT ![a] = new] /\ batch[a].status = "none"
        /\ UNCHANGED <<request, metric, stages, processes>>
  BY DEF OpenReview, k, g, item
<1> HIDE DEF new
<1>8. BatchOK(new)
  BY <1>1, <1>3, <1>4, <1>5, <1>6 DEF BatchOK, AllParts
<1>9. BatchesOK' /\ ObjectsOK'
  BY <1>6, <1>7, <1>8, BatchStepKeeps
<1>10. CInv' /\ RequestsOK'
  BY <1>7, CaptureKeeps DEF BInv, CaptureStep, RequestsOK
<1>11. QED
  BY <1>9, <1>10 DEF BInv

\* A batch that may be decided has a kind, and none of its items is adopted.
LEMMA DecidableBatch ==
  ASSUME BInv, NEW a \in Analyses, Decidable(a)
  PROVE  /\ BatchOK(batch[a]) /\ batch[a].items \in [AllParts -> Item]
         /\ batch[a].status \notin {"none", "committed"} /\ batch[a].kind \in Kinds
         /\ \A p \in AllParts : batch[a].items[p].status # "adopted"
<1>1. BatchOK(batch[a]) /\ batch[a].status \in {"open", "failed", "conflict", "stale"}
  BY DEF BInv, BatchesOK, Decidable
<1>2. QED
  BY <1>1 DEF BatchOK, BatchRow

\* Only a batch of a use case has a metric.
LEMMA MetricOfUseCase ==
  ASSUME NEW k \in Kinds, "metric" \in Parts[k]
  PROVE  k = "use_case"
BY CaptureAssumption DEF Parts

\* Sealing a batch with other items.
LEMMA SealKeeps ==
  ASSUME BInv, NEW a \in Analyses, Decidable(a), NEW items \in [AllParts -> Item],
         batch' = Sealed(a, items), UNCHANGED <<request, metric, stages, processes>>,
         UNCHANGED captureVars,
         items["metric"].status # "none" => batch[a].kind = "use_case",
         \A p \in {"metric", "stage"} : items[p].status = "confirmed" => items[p].value \in Values,
         \A p \in AllParts : items[p].status # "adopted"
  PROVE  BInv'
<1> DEFINE new == With(batch[a], items, "open")
<1>1. BatchOK(new) /\ new.status = "open"
  <2>1. /\ BatchOK(batch[a]) /\ batch[a].status \notin {"none", "committed"}
    BY DecidableBatch
  <2>2. QED
    BY <2>1, BatchWith
<1>2. batch' = [batch EXCEPT ![a] = new]
  BY DEF Sealed, BInv, BatchesOK, With
<1> HIDE DEF new
<1>3. BatchesOK' /\ ObjectsOK'
  BY <1>1, <1>2, DecidableBatch, BatchStepKeeps
<1>4. CInv' /\ RequestsOK'
  BY CaptureKeeps DEF BInv, CaptureStep, RequestsOK
<1>5. QED
  BY <1>3, <1>4 DEF BInv

\* Rejecting an item, with what depends on it.
LEMMA RejectKeeps ==
  ASSUME BInv, NEW a \in Analyses, NEW p \in AllParts, RejectItem(a, p), UNCHANGED captureVars
  PROVE  BInv'
<1> DEFINE old == batch[a].items
           rejected == Rejected(a, p)
           items == IF p = "stage" THEN Cascaded(rejected) ELSE rejected
<1>1. Decidable(a) /\ p \in Parts[batch[a].kind] /\ UNCHANGED <<request, metric, stages, processes>>
        /\ batch' = Sealed(a, items)
  BY DEF RejectItem
<1>2. /\ BatchOK(batch[a]) /\ old \in [AllParts -> Item] /\ batch[a].kind \in Kinds
      /\ batch[a].status # "none"
      /\ \A o \in AllParts : old[o].status # "adopted"
  BY <1>1, DecidableBatch
<1>3. /\ rejected \in [AllParts -> Item] /\ rejected[p].status = "rejected"
      /\ \A o \in AllParts : o # p => rejected[o] = old[o]
  BY <1>2 DEF Rejected, Item, ItemStates
<1> HIDE DEF old, rejected
<1>4. /\ items \in [AllParts -> Item]
      /\ \A o \in AllParts : items[o] = rejected[o]
           \/ (p = "stage" /\ o = "process" /\ items[o].status = "dependency_invalid")
  BY <1>3 DEF Cascaded, Item, ItemStates
<1> HIDE DEF items
<1>5. items["metric"].status # "none" => batch[a].kind = "use_case"
  <2>1. CASE p = "metric"
    BY <1>1, <1>2, <2>1, MetricOfUseCase
  <2>2. CASE p # "metric"
    BY <1>2, <1>3, <1>4, <2>2 DEF BatchOK, AllParts, old
  <2>3. QED
    BY <2>1, <2>2
<1>6. \A o \in {"metric", "stage"} : items[o].status = "confirmed" => items[o].value \in Values
  BY <1>2, <1>3, <1>4 DEF BatchOK, AllParts, old
<1>7. \A o \in AllParts : items[o].status # "adopted"
  BY <1>2, <1>3, <1>4
<1>8. QED
  BY <1>1, <1>4, <1>5, <1>6, <1>7, SealKeeps

\* Confirming an item with its value and what it refers to.
LEMMA ConfirmItemKeeps ==
  ASSUME BInv, NEW a \in Analyses, NEW p \in AllParts, NEW v \in Values \union {0},
         NEW r \in References, ConfirmItem(a, p, v, r), UNCHANGED captureVars
  PROVE  BInv'
<1> DEFINE old == batch[a].items
           confirmed == [status |-> "confirmed", value |-> v, ref |-> r]
           items == [old EXCEPT ![p] = confirmed]
<1>1. Decidable(a) /\ p \in Parts[batch[a].kind] /\ UNCHANGED <<request, metric, stages, processes>>
        /\ batch' = Sealed(a, items) /\ (p # "process" => v \in Values)
  BY DEF ConfirmItem
<1>2. /\ BatchOK(batch[a]) /\ old \in [AllParts -> Item] /\ batch[a].kind \in Kinds
      /\ \A o \in AllParts : old[o].status # "adopted"
  BY <1>1, DecidableBatch
<1>3. confirmed \in Item /\ confirmed.status = "confirmed" /\ confirmed.value = v
  BY DEF Item, ItemStates
<1> HIDE DEF old, confirmed
<1>4. /\ items \in [AllParts -> Item] /\ items[p] = confirmed
      /\ \A o \in AllParts : o # p => items[o] = old[o]
  BY <1>2, <1>3
<1> HIDE DEF items
<1>5. items["metric"].status # "none" => batch[a].kind = "use_case"
  <2>1. CASE p = "metric"
    BY <1>1, <1>2, <2>1, MetricOfUseCase
  <2>2. CASE p # "metric"
    BY <1>2, <1>4, <2>2 DEF BatchOK, AllParts, old
  <2>3. QED
    BY <2>1, <2>2
<1>6. \A o \in {"metric", "stage"} : items[o].status = "confirmed" => items[o].value \in Values
  BY <1>1, <1>2, <1>3, <1>4 DEF BatchOK, AllParts, old
<1>7. \A o \in AllParts : items[o].status # "adopted"
  BY <1>2, <1>3, <1>4
<1>8. QED
  BY <1>1, <1>4, <1>5, <1>6, <1>7, SealKeeps

----------------------------------------------------------------------------
(* Commit requests. *)

\* A request that moves on with the batch it has, or ends.
LEMMA RequestMoves ==
  ASSUME BInv, NEW q \in Requests, NEW place \in {"ready", "reserved", "failed", "conflict", "stale"},
         request[q].at # "idle",
         request' = At(q, place) \/ request' = [request EXCEPT ![q] = Idle]
  PROVE  RequestsOK'
<1>1. request \in [Requests -> RequestRow] /\ request[q].analysis \in Analyses
  BY DEF BInv, RequestsOK
<1>2. Idle \in RequestRow /\ Idle.at = "idle"
  BY DEF Idle, RequestRow, NoBatch, NoItem, Item, ItemStates, References
<1>3. CASE request' = At(q, place)
  <2> DEFINE new == [request[q] EXCEPT !.at = place]
  <2>1. new \in RequestRow /\ new.analysis = request[q].analysis
    BY <1>1 DEF RequestRow
  <2>2. request' = [request EXCEPT ![q] = new]
    BY <1>1, <1>3 DEF At
  <2> HIDE DEF new
  <2>3. QED
    BY <1>1, <2>1, <2>2 DEF BInv, RequestsOK
<1>4. CASE request' = [request EXCEPT ![q] = Idle]
  BY <1>1, <1>2, <1>4 DEF BInv, RequestsOK
<1>5. QED
  BY <1>3, <1>4

\* Steps of a request that leave the batches as they are.
LEMMA RequestKeeps ==
  ASSUME BInv, NEW q \in Requests, UNCHANGED captureVars,
         \/ \E a \in Analyses : ReadBatch(q, a)
         \/ CheckReady(q) \/ ExecuteFails(q) \/ Vanish(q)
  PROVE  BInv'
<1>1. UNCHANGED <<batch, metric, stages, processes>>
  BY DEF ReadBatch, CheckReady, ExecuteFails, RolledBack, Vanish
<1>2. RequestsOK'
  <2>1. request \in [Requests -> RequestRow]
    BY DEF BInv, RequestsOK
  <2>2. ASSUME NEW a \in Analyses, ReadBatch(q, a) PROVE RequestsOK'
    <3>1. [at |-> "read", analysis |-> a, key |-> batch[a].items] \in RequestRow
      BY <2>2, DecidableBatch DEF ReadBatch, RequestRow
    <3>2. QED
      BY <2>1, <2>2, <3>1 DEF ReadBatch, BInv, RequestsOK
  <2>3. CASE CheckReady(q)
    BY <2>3, RequestMoves DEF CheckReady
  <2>4. CASE ExecuteFails(q)
    BY <2>4, RequestMoves DEF ExecuteFails
  <2>5. CASE Vanish(q)
    <3>1. CASE request[q].at = "idle"
      <4>1. Idle \in RequestRow /\ Idle.at = "idle"
        BY DEF Idle, RequestRow, NoBatch, NoItem, Item, ItemStates, References
      <4>2. QED
        BY <2>1, <2>5, <4>1 DEF Vanish, BInv, RequestsOK
    <3>2. CASE request[q].at # "idle"
      BY <2>5, <3>2, RequestMoves DEF Vanish
    <3>3. QED
      BY <3>1, <3>2
  <2>6. QED
    BY <2>2, <2>3, <2>4, <2>5
<1>3. QED
  BY <1>1, <1>2, BatchesStay, CaptureKeeps DEF BInv, CaptureStep

\* A batch that only changes its status, and is not committed.
LEMMA StatusKeeps ==
  ASSUME BInv, NEW a \in Analyses, NEW st \in {"processing", "failed", "conflict", "stale"},
         batch[a].status \notin {"none", "committed"},
         batch' = [batch EXCEPT ![a].status = st], UNCHANGED <<metric, stages, processes>>
  PROVE  BatchesOK' /\ ObjectsOK'
<1> DEFINE new == [batch[a] EXCEPT !.status = st]
<1>1. BatchOK(batch[a]) /\ batch[a] \in BatchRow /\ batch \in [Analyses -> BatchRow]
  BY DEF BInv, BatchesOK
<1>2. new \in BatchRow /\ new.status = st /\ new.items = batch[a].items /\ new.kind = batch[a].kind
  BY <1>1 DEF BatchRow
<1>3. batch' = [batch EXCEPT ![a] = new]
  BY <1>1
<1> HIDE DEF new
<1>4. BatchOK(new)
  BY <1>1, <1>2 DEF BatchOK
<1>5. QED
  BY <1>2, <1>3, <1>4, BatchStepKeeps

\* Reserving a batch, and recording that its commit failed.
LEMMA ReserveKeeps ==
  ASSUME BInv, NEW q \in Requests, Reserve(q), UNCHANGED captureVars
  PROVE  BInv'
<1>1. PICK a \in Analyses : a = request[q].analysis
  BY DEF Reserve, BInv, RequestsOK
<1>2. RequestsOK'
  BY RequestMoves DEF Reserve
<1>3. BatchesOK' /\ ObjectsOK'
  <2>1. CASE batch' = [batch EXCEPT ![a].status = "processing"] /\ Retryable(a)
    <3>1. batch[a].status \notin {"none", "committed"}
      BY <2>1 DEF Retryable
    <3>2. QED
      BY <2>1, <3>1, StatusKeeps DEF Reserve
  <2>2. CASE UNCHANGED batch
    BY <2>2, BatchesStay DEF Reserve
  <2>3. QED
    BY <1>1, <2>1, <2>2 DEF Reserve
<1>4. QED
  BY <1>2, <1>3, CaptureKeeps DEF BInv, CaptureStep

\* A recorded failure leaves the analysis its status and the objects what they were.
LEMMA RecordKeeps ==
  ASSUME SInv, NEW q \in Requests, RecordFailure(q), UNCHANGED captureVars
  PROVE  BInv'
<1>1. PICK a \in Analyses : a = request[q].analysis /\ batch[a].status # "none"
  BY DEF RecordFailure, SInv, BInv, RequestsOK, RequestsHaveBatch
<1>2. RequestsOK'
  BY RequestMoves DEF RecordFailure, SInv
<1>3. BatchesOK' /\ ObjectsOK'
  <2>1. CASE batch[a].status # "committed"
    <3>1. PICK st \in {"failed", "conflict", "stale"} : st = request[q].at
      BY DEF RecordFailure
    <3>2. batch' = [batch EXCEPT ![a].status = st]
      BY <1>1, <2>1, <3>1 DEF RecordFailure
    <3>3. QED
      BY <1>1, <2>1, <3>2, StatusKeeps DEF RecordFailure, SInv
  <2>2. CASE batch[a].status = "committed"
    BY <1>1, <2>2, BatchesStay DEF RecordFailure, SInv
  <2>3. QED
    BY <2>1, <2>2
<1>4. QED
  BY <1>2, <1>3, CaptureKeeps DEF SInv, BInv, CaptureStep

\* What has been chosen, after the commit and before it.
LEMMA AdoptedItems ==
  ASSUME NEW items \in [AllParts -> Item], \A p \in AllParts : items[p].status # "adopted"
  PROVE  /\ Adopted(items) \in [AllParts -> Item]
         /\ Chosen(Adopted(items)) = {}
         /\ \A p \in AllParts :
              /\ Adopted(items)[p].status = "adopted" <=> p \in Chosen(items)
              /\ Adopted(items)[p].status \in {"adopted", items[p].status}
              /\ Adopted(items)[p].ref = items[p].ref
<1>1. ASSUME NEW p \in AllParts
      PROVE  /\ Adopted(items)[p] \in Item /\ Adopted(items)[p].status # "confirmed"
             /\ Adopted(items)[p].status = "adopted" <=> p \in Chosen(items)
             /\ Adopted(items)[p].status \in {"adopted", items[p].status}
             /\ Adopted(items)[p].ref = items[p].ref
  <2>1. items[p] \in Item
    OBVIOUS
  <2>2. CASE p \in Chosen(items)
    <3>1. Adopted(items)[p] = [items[p] EXCEPT !.status = "adopted"]
      BY <2>2 DEF Adopted
    <3>2. QED
      BY <2>1, <2>2, <3>1 DEF Item, ItemStates
  <2>3. CASE p \notin Chosen(items)
    <3>1. Adopted(items)[p] = items[p]
      BY <2>3 DEF Adopted
    <3>2. QED
      BY <2>1, <2>3, <3>1 DEF Chosen
  <2>4. QED
    BY <2>2, <2>3
<1>2. Adopted(items) \in [AllParts -> Item]
  <2>1. Adopted(items) = [p \in AllParts |-> Adopted(items)[p]]
    BY DEF Adopted
  <2>2. QED
    BY <1>1, <2>1
<1>3. Chosen(Adopted(items)) = {}
  BY <1>1 DEF Chosen
<1>4. QED
  BY <1>1, <1>2, <1>3

\* A commit writes the objects of its batch, each once, and adopts its items.
LEMMA ExecuteKeeps ==
  ASSUME BInv, NEW q \in Requests, Execute(q), UNCHANGED captureVars
  PROVE  BInv'
<1>1. PICK a \in Analyses : a = request[q].analysis
  BY DEF Execute, BInv, RequestsOK
<1> DEFINE old == batch[a].items
           new == [batch[a] EXCEPT !.status = "committed", !.items = Adopted(@)]
<1>2. /\ batch[a].status = "processing" /\ Effects(a)
      /\ batch' = [batch EXCEPT ![a].status = "committed", ![a].items = Adopted(@)]
      /\ request' = [request EXCEPT ![q] = Idle]
  BY <1>1 DEF Execute
<1>3. /\ BatchOK(batch[a]) /\ batch[a] \in BatchRow /\ batch \in [Analyses -> BatchRow]
      /\ old \in [AllParts -> Item]
      /\ \A p \in AllParts : old[p].status # "adopted"
  BY <1>2 DEF BInv, BatchesOK, BatchOK, BatchRow
<1>4. /\ Adopted(old) \in [AllParts -> Item]
      /\ Chosen(Adopted(old)) = {}
      /\ \A p \in AllParts :
           /\ Adopted(old)[p].status = "adopted" <=> p \in Chosen(old)
           /\ Adopted(old)[p].status \in {"adopted", old[p].status}
           /\ Adopted(old)[p].ref = old[p].ref
  BY <1>3, AdoptedItems
<1>5. /\ new \in BatchRow /\ new.status = "committed" /\ new.items = Adopted(old)
      /\ new.kind = batch[a].kind
  BY <1>3, <1>4 DEF BatchRow
<1>6. batch' = [batch EXCEPT ![a] = new]
  BY <1>2, <1>3
<1> HIDE DEF new
<1>7. BatchOK(new)
  <2>1. new.items["metric"].status # "none" => new.kind = "use_case"
    BY <1>3, <1>4, <1>5 DEF BatchOK, AllParts, Chosen
  <2>2. \A p \in {"metric", "stage"} : new.items[p].status # "confirmed"
    BY <1>4, <1>5 DEF Chosen, AllParts
  <2>3. QED
    BY <1>2, <1>3, <1>4, <1>5, <2>1, <2>2 DEF BatchOK
<1>8. /\ batch' \in [Analyses -> BatchRow] /\ batch'[a] = new
      /\ \A b \in Analyses : b # a => batch'[b] = batch[b]
  BY <1>3, <1>5, <1>6
<1>9. \A p \in AllParts : Has(a, p)' <=> p \in Chosen(old)
  BY <1>4, <1>5, <1>8 DEF Has
<1>10. \A p \in {"metric", "stage"} : p \in Chosen(old) => old[p].value \in Values
  BY <1>3 DEF BatchOK, Chosen
<1>11. MadeStages(a) = {} /\ MadeProcesses(a) = {}
  BY <1>3 DEF BInv, BatchesOK, MadeOK, Has, AllParts
<1>12. /\ NewStages(a) \subseteq [at : Values, by : {a}]
       /\ IF "stage" \in Chosen(old) THEN \E st : NewStages(a) = {st} ELSE NewStages(a) = {}
  <2>1. CASE "stage" \in Chosen(old)
    <3>1. NewStages(a) = {[at |-> old["stage"].value, by |-> a]}
      BY <2>1 DEF NewStages
    <3>2. old["stage"].value \in Values
      BY <1>10, <2>1
    <3>3. [at |-> old["stage"].value, by |-> a] \in [at : Values, by : {a}]
      BY <3>2
    <3>4. PICK st : NewStages(a) = {st} /\ st \in [at : Values, by : {a}]
      BY <3>1, <3>3
    <3>5. QED
      BY <2>1, <3>4
  <2>2. CASE "stage" \notin Chosen(old)
    BY <2>2 DEF NewStages
  <2>3. QED
    BY <2>1, <2>2
<1>13. stages' = stages \union NewStages(a)
  BY <1>2 DEF Effects
<1>14. IF "process" \in Chosen(old)
       THEN \E pr \in [by : {a}, in : Analyses \union {People}] :
              /\ processes' = processes \union {pr}
              /\ old["process"].ref = "local" => pr.in = a
       ELSE processes' = processes
  <2>1. CASE "process" \in Chosen(old)
    <3>1. PICK st \in StageChoice(a) : processes' = processes \union {[by |-> a, in |-> st.by]}
      BY <1>2, <2>1 DEF Effects, NewProcesses
    <3>2. st.by \in Analyses \union {People}
      BY <1>12 DEF StageChoice, BInv, ObjectsOK
    <3>3. old["process"].ref = "local" => st.by = a
      BY <1>12 DEF StageChoice
    <3> DEFINE pr == [by |-> a, in |-> st.by]
    <3>4. pr \in [by : {a}, in : Analyses \union {People}] /\ pr.in = st.by
      BY <3>2
    <3> HIDE DEF pr
    <3>5. processes' = processes \union {pr}
      BY <3>1 DEF pr
    <3>6. QED
      BY <2>1, <3>3, <3>4, <3>5
  <2>2. CASE "process" \notin Chosen(old)
    BY <1>2, <2>2 DEF Effects
  <2>3. QED
    BY <2>1, <2>2
<1>15. ObjectsOK'
  <2>1. metric' \in Values
    BY <1>2, <1>10 DEF Effects, BInv, ObjectsOK
  <2>2. QED
    BY <1>12, <1>13, <1>14, <2>1 DEF BInv, ObjectsOK
<1>16. MadeOK(a)'
  <2>1. MadeStages(a)' = NewStages(a)
    BY <1>11, <1>12, <1>13 DEF MadeStages
  <2>2. IF "process" \in Chosen(old)
        THEN \E pr : MadeProcesses(a)' = {pr} /\ (old["process"].ref = "local" => pr.in = a)
        ELSE MadeProcesses(a)' = {}
    BY <1>11, <1>14 DEF MadeProcesses
  <2>3. batch'[a].items["process"].ref = old["process"].ref
    BY <1>4, <1>5, <1>8 DEF AllParts
  <2>4. /\ Has(a, "stage")' <=> "stage" \in Chosen(old)
        /\ Has(a, "process")' <=> "process" \in Chosen(old)
    BY <1>9 DEF AllParts
  <2>5. QED
    BY <1>12, <2>1, <2>2, <2>3, <2>4 DEF MadeOK
<1>17. ASSUME NEW b \in Analyses, b # a PROVE MadeOK(b)'
  <2>1. MadeStages(b)' = MadeStages(b)
    BY <1>12, <1>13, <1>17 DEF MadeStages
  <2>2. MadeProcesses(b)' = MadeProcesses(b)
    BY <1>14, <1>17 DEF MadeProcesses
  <2>3. QED
    BY <1>8, <1>17, <2>1, <2>2 DEF BInv, BatchesOK, MadeOK, Has
<1>18. BatchesOK'
  BY <1>7, <1>8, <1>16, <1>17 DEF BInv, BatchesOK
<1>19. RequestsOK'
  <2>1. request[q].at # "idle"
    BY DEF Execute
  <2>2. QED
    BY <1>2, <2>1, RequestMoves
<1>20. QED
  BY <1>15, <1>18, <1>19, CaptureKeeps DEF BInv, CaptureStep

\* People change the metric and add stages of their own.
LEMMA PeopleKeep ==
  ASSUME BInv, NEW v \in Values, SetMetric(v) \/ AddStage(v), UNCHANGED captureVars
  PROVE  BInv'
<1>1. UNCHANGED <<batch, request, processes>>
  BY DEF SetMetric, AddStage
<1>2. RequestsOK' /\ CInv'
  BY <1>1, CaptureKeeps DEF BInv, RequestsOK, CaptureStep
<1>3. ObjectsOK'
  BY <1>1 DEF SetMetric, AddStage, BInv, ObjectsOK
<1>4. ASSUME NEW a \in Analyses PROVE MadeStages(a)' = MadeStages(a) /\ MadeProcesses(a)' = MadeProcesses(a)
  BY <1>1, ValuesAssumption DEF SetMetric, AddStage, MadeStages, MadeProcesses
<1>5. BatchesOK'
  BY <1>1, <1>4 DEF BInv, BatchesOK, MadeOK, Has
<1>6. QED
  BY <1>2, <1>3, <1>5 DEF BInv

\* Captures and analyses move without touching batches and objects.
LEMMA CapturesMove ==
  ASSUME BInv, CaptureStep, UNCHANGED structuredVars
  PROVE  BInv'
<1>1. UNCHANGED <<batch, request, metric, stages, processes>>
  BY DEF structuredVars
<1>2. RequestsOK'
  BY <1>1 DEF BInv, RequestsOK
<1>3. QED
  BY <1>1, <1>2, BatchesStay, CaptureKeeps DEF BInv

\* No step makes a batch not to exist.
LEMMA BatchesRemain ==
  ASSUME BInv, [StructuredNext]_<<captureVars, structuredVars>>, NEW a \in Analyses,
         batch[a].status # "none"
  PROVE  batch'[a].status # "none"
<1>1. batch \in [Analyses -> BatchRow]
  BY DEF BInv, BatchesOK
<1>2. ASSUME NEW o \in Analyses, NEW p \in AllParts,
             RejectItem(o, p) \/ \E v \in Values \union {0}, r \in References : ConfirmItem(o, p, v, r)
      PROVE  batch'[a].status # "none"
  BY <1>1, <1>2, ZenonT(40) DEF RejectItem, ConfirmItem, Sealed, BatchRow
<1>3. ASSUME NEW o \in Analyses, OpenReview(o) PROVE batch'[a].status # "none"
  BY <1>1, <1>3 DEF OpenReview
<1>4. ASSUME NEW q \in Requests, Reserve(q) \/ Execute(q) \/ RecordFailure(q)
      PROVE  batch'[a].status # "none"
  BY <1>1, <1>4 DEF Reserve, Execute, RecordFailure, BatchRow
<1>5. CASE UNCHANGED batch
  BY <1>5
<1>6. QED
  BY <1>2, <1>3, <1>4, <1>5 DEF StructuredNext, structuredVars, ReadBatch, CheckReady, ExecuteFails,
     Vanish, SetMetric, AddStage

\* A request that works on a batch has read it, or did so before.
LEMMA RequestsRemain ==
  ASSUME BInv, [StructuredNext]_<<captureVars, structuredVars>>, NEW q \in Requests,
         request'[q].at # "idle"
  PROVE  \/ request[q].at # "idle" /\ request'[q].analysis = request[q].analysis
         \/ request'[q].analysis \in Analyses /\ batch[request'[q].analysis].status # "none"
<1>1. request \in [Requests -> RequestRow] /\ Idle.at = "idle"
  BY DEF BInv, RequestsOK, Idle
<1>2. ASSUME NEW o \in Requests, NEW a \in Analyses, ReadBatch(o, a)
      PROVE  \/ request'[q] = request[q]
             \/ request'[q].analysis \in Analyses /\ batch[request'[q].analysis].status # "none"
  BY <1>1, <1>2 DEF ReadBatch, Decidable
<1>3. ASSUME NEW o \in Requests, NEW place, request[o].at # "idle",
             request' = At(o, place) \/ request' = [request EXCEPT ![o] = Idle]
      PROVE  request[q].at # "idle" /\ request'[q].analysis = request[q].analysis
  BY <1>1, <1>3 DEF At, RequestRow
<1>4. ASSUME NEW o \in Requests, Vanish(o)
      PROVE  request'[q] = request[q]
  BY <1>1, <1>4 DEF Vanish
<1>5. ASSUME NEW o \in Requests,
             CheckReady(o) \/ Reserve(o) \/ Execute(o) \/ ExecuteFails(o) \/ RecordFailure(o)
      PROVE  \E place : request[o].at # "idle"
               /\ (request' = At(o, place) \/ request' = [request EXCEPT ![o] = Idle])
  BY <1>5 DEF CheckReady, Reserve, Execute, ExecuteFails, RecordFailure
<1>6. ASSUME UNCHANGED request PROVE request'[q] = request[q]
  BY <1>6
<1>7. QED
  BY <1>2, <1>3, <1>4, <1>5, <1>6 DEF StructuredNext, structuredVars, OpenReview, RejectItem,
     ConfirmItem, SetMetric, AddStage

\* Every step keeps the invariant.
LEMMA StructuredKeeps ==
  ASSUME SInv, [StructuredNext]_<<captureVars, structuredVars>>
  PROVE  SInv'
<1>1. BInv
  BY DEF SInv
<1>2. ASSUME CaptureStep, UNCHANGED structuredVars PROVE BInv'
  BY <1>1, <1>2, CapturesMove
<1>3. ASSUME UNCHANGED captureVars, NEW a \in Analyses,
             \/ OpenReview(a)
             \/ \E p \in AllParts :
                  \/ RejectItem(a, p)
                  \/ \E v \in Values \union {0}, r \in References : ConfirmItem(a, p, v, r)
      PROVE  BInv'
  BY <1>1, <1>3, OpenReviewKeeps, RejectKeeps, ConfirmItemKeeps
<1>4. ASSUME UNCHANGED captureVars, NEW q \in Requests,
             \/ \E a \in Analyses : ReadBatch(q, a)
             \/ CheckReady(q) \/ ExecuteFails(q) \/ Vanish(q)
             \/ Reserve(q) \/ Execute(q) \/ RecordFailure(q)
      PROVE  BInv'
  BY <1>1, <1>4, RequestKeeps, ReserveKeeps, ExecuteKeeps, RecordKeeps
<1>5. ASSUME UNCHANGED captureVars, NEW v \in Values, SetMetric(v) \/ AddStage(v) PROVE BInv'
  BY <1>1, <1>5, PeopleKeep
<1>6. BInv'
  BY <1>2, <1>3, <1>4, <1>5 DEF StructuredNext, CaptureStep, PurgeCapture
<1>7. RequestsHaveBatch'
  <2>1. SUFFICES ASSUME NEW q \in Requests, request'[q].at # "idle"
                 PROVE  batch'[request'[q].analysis].status # "none"
    BY DEF RequestsHaveBatch
  <2>2. request'[q].analysis \in Analyses /\ batch[request'[q].analysis].status # "none"
    BY <1>1, <2>1, RequestsRemain DEF SInv, BInv, RequestsHaveBatch, RequestsOK
  <2>3. QED
    BY <1>1, <2>2, BatchesRemain
<1>8. QED
  BY <1>6, <1>7 DEF SInv

----------------------------------------------------------------------------
(* The theorems. *)

\* The inductive invariant of the structured adoption.
LEMMA StructuredInvariant == StructuredSpec => []SInv
<1>1. StructuredInit => SInv
  BY InitialBatches DEF StructuredInit, SInv, RequestsHaveBatch, Idle
<1>2. SInv /\ [StructuredNext]_<<captureVars, structuredVars>> => SInv'
  BY StructuredKeeps
<1>3. QED
  BY <1>1, <1>2, PTL DEF StructuredSpec

\* Batches, commit requests and what they write keep their types, whatever
\* request ends between two of its transactions (commit_review_batch).
THEOREM StructuredTypes == StructuredSpec => []StructuredTypeOK
<1>1. SInv => StructuredTypeOK
  <2>1. SUFFICES ASSUME SInv PROVE StructuredTypeOK
    OBVIOUS
  <2>2. \A q \in Requests : request[q] \in RequestRow
    BY <2>1 DEF SInv, BInv, RequestsOK
  <2>3. QED
    BY <2>1, <2>2 DEF SInv, BInv, CInv, RequestsOK, ObjectsOK, BatchesOK, StructuredTypeOK,
       BatchRow, Item, RequestRow
<1>2. QED
  BY <1>1, StructuredInvariant, PTL

\* The objects of a batch exist together and once if it is committed, and none
\* before, for any number of requests that read, reserve, execute, fail and
\* end in any order (_execute_reserved_batch, _record_failure).
THEOREM AllOrNothingAlways == StructuredSpec => []AllOrNothing
<1>1. SInv => AllOrNothing
  <2>1. SUFFICES ASSUME SInv, NEW a \in Analyses
                 PROVE  /\ \A p \in AllParts : Has(a, p) => batch[a].status = "committed"
                        /\ Cardinality(MadeStages(a)) = (IF Has(a, "stage") THEN 1 ELSE 0)
                        /\ Cardinality(MadeProcesses(a)) = (IF Has(a, "process") THEN 1 ELSE 0)
                        /\ batch[a].status = "committed" => Chosen(batch[a].items) = {}
                        /\ \A pr \in MadeProcesses(a) :
                             batch[a].items["process"].ref = "local" => pr.in = a
    BY DEF AllOrNothing, Has
  <2>2. MadeOK(a) /\ BatchOK(batch[a])
    BY <2>1 DEF SInv, BInv, BatchesOK
  <2>3. Cardinality(MadeStages(a)) = (IF Has(a, "stage") THEN 1 ELSE 0)
    BY <2>2, FS_EmptySet, FS_Singleton DEF MadeOK
  <2>4. Cardinality(MadeProcesses(a)) = (IF Has(a, "process") THEN 1 ELSE 0)
    BY <2>2, FS_EmptySet, FS_Singleton DEF MadeOK
  <2>5. QED
    BY <2>2, <2>3, <2>4 DEF BatchOK, MadeOK, Has
<1>2. QED
  BY <1>1, StructuredInvariant, PTL

\* Only the execution of a reserved batch commits it.
LEMMA CommitIsExecution ==
  ASSUME SInv, [StructuredNext]_<<captureVars, structuredVars>>, NEW a \in Analyses,
         batch[a].status = "processing", batch'[a].status = "committed"
  PROVE  \E q \in Requests : Execute(q) /\ request[q].analysis = a
<1>1. batch \in [Analyses -> BatchRow]
  BY DEF SInv, BInv, BatchesOK
<1>2. ~UNCHANGED batch
  OBVIOUS
<1>3. ASSUME NEW o \in Analyses, OpenReview(o) PROVE FALSE
  BY <1>1, <1>3 DEF OpenReview
<1>4. ASSUME NEW o \in Analyses, NEW p \in AllParts,
             RejectItem(o, p) \/ \E v \in Values \union {0}, r \in References : ConfirmItem(o, p, v, r)
      PROVE  FALSE
  BY <1>1, <1>4, ZenonT(40) DEF RejectItem, ConfirmItem, Sealed, BatchRow
<1>5. ASSUME NEW q \in Requests, Reserve(q) \/ RecordFailure(q) PROVE FALSE
  BY <1>1, <1>5 DEF Reserve, RecordFailure, BatchRow
<1>6. ASSUME NEW q \in Requests, Execute(q) PROVE request[q].analysis = a
  BY <1>1, <1>6 DEF Execute
<1>7. QED
  BY <1>2, <1>3, <1>4, <1>5, <1>6 DEF StructuredNext, structuredVars, ReadBatch, CheckReady,
     ExecuteFails, Vanish, SetMetric, AddStage

\* A commit writes the items its request found decided when it read the batch
\* (_assert_batch_identity under the lock).
THEOREM CommitsAreAsRead == StructuredSpec => CommitsWhatWasRead
<1>1. ASSUME SInv, [StructuredNext]_<<captureVars, structuredVars>>, NEW a \in Analyses,
             batch[a].status = "processing", batch'[a].status = "committed"
      PROVE  \E q \in Requests :
                /\ request[q].at = "reserved" /\ request[q].analysis = a
                /\ request[q].key = batch[a].items
  <2>1. PICK q \in Requests : Execute(q) /\ request[q].analysis = a
    BY <1>1, CommitIsExecution
  <2>2. request[q].at = "reserved" /\ request[q].key = batch[a].items
    BY <2>1 DEF Execute, SameKey
  <2>3. QED
    BY <2>1, <2>2
<1>2. SInv /\ [StructuredNext]_<<captureVars, structuredVars>> =>
        [\A a \in Analyses :
           batch[a].status = "processing" /\ batch'[a].status = "committed"
           => \E q \in Requests :
                /\ request[q].at = "reserved" /\ request[q].analysis = a
                /\ request[q].key = batch[a].items]_<<captureVars, structuredVars>>
  BY <1>1
<1>3. QED
  BY <1>2, StructuredInvariant, PTL DEF StructuredSpec, CommitsWhatWasRead

\* A metric that people changed after the review showed it is not overwritten
\* (structured_metric_adoption).
THEOREM MetricsAreAsShown == StructuredSpec => OverwritesOnlyWhatWasShown
<1>1. ASSUME SInv, [StructuredNext]_<<captureVars, structuredVars>>, NEW a \in Analyses,
             batch[a].status = "processing", batch'[a].status = "committed",
             "metric" \in Chosen(batch[a].items)
      PROVE  batch[a].shown = metric
  <2>1. Executable(a)
    BY <1>1, CommitIsExecution DEF Execute
  <2>2. batch[a].kind = "use_case"
    BY <1>1 DEF SInv, BInv, BatchesOK, BatchOK, Chosen
  <2>3. QED
    BY <2>1, <2>2 DEF Executable, MetricAsShown
<1>2. SInv /\ [StructuredNext]_<<captureVars, structuredVars>> =>
        [\A a \in Analyses :
           /\ batch[a].status = "processing" /\ batch'[a].status = "committed"
           /\ "metric" \in Chosen(batch[a].items)
           => batch[a].shown = metric]_<<captureVars, structuredVars>>
  BY <1>1
<1>3. QED
  BY <1>2, StructuredInvariant, PTL DEF StructuredSpec, OverwritesOnlyWhatWasShown
============================================================================
