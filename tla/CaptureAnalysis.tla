------------------------- MODULE CaptureAnalysis -------------------------
(* Guided captures and their analyses: accelerator/services.py,           *)
(* analysis_service.py, extraction_validation.py, target_binding.py,      *)
(* retention.py and the use case intake that takes an analysis over       *)
(* (use_cases/intake_views.py).                                           *)
(*                                                                         *)
(* Every service is one transaction that locks the capture (or the         *)
(* analysis), so it is one step.  An analysis is three: prepare, the        *)
(* provider's answer outside any transaction, and store or fail; the       *)
(* request in between may die.  All captures have the same owner.           *)
EXTENDS Integers, FiniteSets

CONSTANTS
  Sessions,        \* captures
  Analyses,        \* identities of capture analyses
  Kinds,           \* "use_case", "value_stream": kinds of capture and target
  Suggestions,     \* what an extraction may suggest: [text, value, level]
  MaxPerCapture,   \* max_calls_per_context
  MaxPerDay,       \* the owner's and the accelerator's daily limit
  MaxRevision      \* bound on the revisions of a capture

NoSession == "no capture"

ASSUME CaptureAssumption ==
  /\ Kinds \subseteq {"use_case", "value_stream"} /\ NoSession \notin Sessions
  /\ MaxPerCapture \in Nat /\ MaxPerDay \in Nat /\ MaxRevision \in Nat

VARIABLES
  session,    \* CaptureSession rows: kind, status, revision, due, bound
  analysis,   \* CaptureAnalysis rows with what they suggest
  calls,      \* AcceleratorLLMQuota of the capture
  waiting     \* analyses whose request is still there

captureVars == <<session, analysis, calls, waiting>>

Editable == {"draft", "completed"}
NoSuggestion == [level |-> "none"]

CaptureTypeOK ==
  /\ session \in [Sessions ->
       [kind : Kinds, revision : 0..MaxRevision, due : BOOLEAN,
        bound : BOOLEAN,
        status : Editable \union {"discarded", "expired", "purged"}]]
  /\ analysis \in [Analyses ->
       [session : Sessions \union {NoSession}, revision : 0..MaxRevision,
        status : {"none", "running", "success", "failed"},
        suggests : Suggestions \union {NoSuggestion}]]
  /\ calls \in [Sessions -> 0..MaxPerCapture]
  /\ waiting \subseteq {a \in Analyses : analysis[a].status = "running"}

CaptureInit ==
  /\ session \in [Sessions ->
       [kind : Kinds, revision : {0}, due : {FALSE}, bound : {FALSE},
        status : {"draft"}]]
  /\ analysis = [a \in Analyses |->
       [session |-> NoSession, revision |-> 0, status |-> "none",
        suggests |-> NoSuggestion]]
  /\ calls = [s \in Sessions |-> 0]
  /\ waiting = {}

AnalysesOf(s) == {a \in Analyses : analysis[a].session = s}

\* The models the target binding and the field registry know.
TargetOf(s) == session[s].kind

----------------------------------------------------------------------------
(* Captures *)

\* Faulty variant: a capture expires under its analysis.
ExpirableAnyTime(s) == session[s].status \in Editable /\ session[s].due

\* _expirable_sessions: a capture whose analysis runs is left alone.
Expirable(s) ==
  /\ session[s].status \in Editable
  /\ session[s].due
  /\ \A a \in AnalysesOf(s) : analysis[a].status # "running"

\* _locked_owned_session, _assert_editable, _assert_revision.  A page with an
\* older revision is refused, and so is a draft that has come due: the step
\* that would expire it is rolled back with the refusal.
MayEdit(s) == session[s].status = "draft" /\ ~Expirable(s)

Save(s) ==
  /\ MayEdit(s)
  /\ session[s].revision < MaxRevision - 1
  /\ session' = [session EXCEPT ![s].revision = @ + 1, ![s].due = FALSE]
  /\ UNCHANGED <<analysis, calls, waiting>>

Complete(s) ==
  /\ MayEdit(s)
  /\ session[s].revision < MaxRevision
  /\ session' = [session EXCEPT ![s].revision = @ + 1, ![s].due = FALSE,
                                ![s].status = "completed"]
  /\ UNCHANGED <<analysis, calls, waiting>>

Discard(s) ==
  /\ MayEdit(s)
  /\ session[s].revision < MaxRevision
  /\ session' = [session EXCEPT ![s].revision = @ + 1,
                                ![s].status = "discarded"]
  /\ UNCHANGED <<analysis, calls, waiting>>

\* expires_at passes.
Lapse(s) ==
  /\ session[s].status \in Editable /\ ~session[s].due
  /\ session' = [session EXCEPT ![s].due = TRUE]
  /\ UNCHANGED <<analysis, calls, waiting>>

Expire(s) ==
  /\ Expirable(s)
  /\ session' = [session EXCEPT ![s].status = "expired"]
  /\ UNCHANGED <<analysis, calls, waiting>>

\* After the grace period the row goes, and its analyses, suggestions and
\* quota with it.
Purge(s) ==
  /\ session[s].status \in {"expired", "discarded"}
  /\ session' = [session EXCEPT ![s].status = "purged", ![s].due = FALSE,
                                ![s].bound = FALSE]
  /\ analysis' = [a \in Analyses |->
       IF a \in AnalysesOf(s)
       THEN [session |-> NoSession, revision |-> 0, status |-> "failed",
             suggests |-> NoSuggestion]
       ELSE analysis[a]]
  /\ calls' = [calls EXCEPT ![s] = 0]
  /\ UNCHANGED waiting

\* bind_capture_target, which any status of the capture allows until an
\* analysis of it has suggestions.
MayBind(s) == \A a \in AnalysesOf(s) : analysis[a].status # "success"

Bind(s, b) ==
  /\ session[s].status # "purged"
  /\ session[s].bound # b
  /\ MayBind(s)
  /\ session' = [session EXCEPT ![s].bound = b]
  /\ UNCHANGED <<analysis, calls, waiting>>

\* The intake wizard creates the use case from an analysis and binds the
\* capture to it; the one target of the model then stands for the new row, so
\* no other capture may be bound to it.
Materialise(s) ==
  /\ session[s].kind = "use_case"
  /\ session[s].status = "completed" /\ ~session[s].due
  /\ ~session[s].bound
  /\ \E a \in AnalysesOf(s) : /\ analysis[a].status = "success"
                               /\ analysis[a].suggests.level # "high"
  /\ \A o \in Sessions : ~(session[o].kind = "use_case" /\ session[o].bound)
  /\ session' = [session EXCEPT ![s].bound = TRUE]
  /\ UNCHANGED <<analysis, calls, waiting>>

----------------------------------------------------------------------------
(* Analyses *)

\* The quota of the capture, of its owner and of the accelerator are counted
\* up together or, when one is used up, not at all.
QuotaLeft(s) ==
  /\ calls[s] < MaxPerCapture
  /\ Cardinality({a \in Analyses : analysis[a].status # "none"}) < MaxPerDay

\* prepare_capture_analysis: a completed capture, whose answers no longer
\* change, has at most one running analysis (uniq_running_analysis_source).
\* Its expiry is renewed.
Prepare(s, a) ==
  /\ analysis[a].status = "none"
  /\ session[s].status = "completed" /\ ~Expirable(s)
  /\ QuotaLeft(s)
  /\ \A o \in AnalysesOf(s) : analysis[o].status # "running"
  /\ analysis' = [analysis EXCEPT
       ![a] = [session |-> s, revision |-> session[s].revision,
               status |-> "running", suggests |-> NoSuggestion]]
  /\ calls' = [calls EXCEPT ![s] = @ + 1]
  /\ session' = [session EXCEPT ![s].due = FALSE]
  /\ waiting' = waiting \union {a}

\* mark_capture_analysis_failed: no answer, or none that can be used.
Fail(a) ==
  /\ a \in waiting
  /\ analysis[a].status = "running"
  /\ analysis' = [analysis EXCEPT ![a].status = "failed"]
  /\ waiting' = waiting \ {a}
  /\ UNCHANGED <<session, calls>>

\* store_validated_extraction without the offers it makes.
StoreSuggestions(a, g) ==
  /\ a \in waiting
  /\ analysis[a].status = "running"
  /\ analysis' = [analysis EXCEPT ![a].status = "success", ![a].suggests = g]
  /\ waiting' = waiting \ {a}
  /\ UNCHANGED <<session, calls>>

\* The request ends in between: killed, out of time, or by an error that
\* execute_capture_analysis does not catch.
Die(a) ==
  /\ a \in waiting
  /\ waiting' = waiting \ {a}
  /\ UNCHANGED <<session, analysis, calls>>

\* Every step of this module that no other module joins.
CaptureNext ==
  \/ \E s \in Sessions :
       \/ Save(s) \/ Complete(s) \/ Discard(s)
       \/ Lapse(s) \/ Expire(s) \/ Materialise(s)
       \/ \E b \in BOOLEAN : Bind(s, b)
       \/ \E a \in Analyses : Prepare(s, a)
  \/ \E a \in Analyses : Fail(a) \/ Die(a)
============================================================================
