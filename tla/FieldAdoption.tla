-------------------------- MODULE FieldAdoption --------------------------
(* Suggestions for single text fields: candidate_snapshot.py,              *)
(* candidate_state.py, adoption_policy.py, adoption_service.py,            *)
(* adoption_audit.py and form_adapters.py.                                 *)
(*                                                                         *)
(* An analysis offers one text for one field of the target its capture is  *)
(* bound to.  Adopting or rejecting it is one transaction: it reserves the *)
(* candidate by a conditional UPDATE and then locks candidate, suggestion, *)
(* analysis, capture and target, so it is one step.  The flag              *)
(* ACCELERATOR_FIELD_ADOPTION_ENABLED is on.                                *)
EXTENDS CaptureAnalysis

CONSTANTS
  Texts,        \* canonical values of the text field
  Archiving     \* the kinds of target that may be archived

NoText == "no text"

ASSUME FieldAssumption == NoText \notin Analyses

VARIABLES
  text,         \* the field of the target of each kind
  archived,     \* targets out of use
  candidate,    \* FieldAdoptionCandidate of each analysis: status, shown
  audit         \* the outcome in the FieldAdoptionAudit of each candidate

fieldVars == <<text, archived, candidate, audit>>

Offered(a) == analysis[a].suggests.text
OwnTarget(a) == TargetOf(analysis[a].session)

Settled == {"adopted", "adopted_edited", "rejected", "conflict", "stale",
            "failed"}

FieldTypeOK ==
  /\ CaptureTypeOK
  /\ text \in [Kinds -> Texts]
  /\ archived \subseteq Archiving
  /\ candidate \in [Analyses ->
       [status : Settled \union {"none", "open", "superseded", "purged"},
        shown : Texts \union {NoText}]]
  /\ audit \in [Analyses -> Settled \union {"none"}]

NoCandidate == [status |-> "none", shown |-> NoText]

FieldInit ==
  /\ CaptureInit
  /\ text \in [Kinds -> Texts]
  /\ archived = {}
  /\ candidate = [a \in Analyses |-> NoCandidate]
  /\ audit = [a \in Analyses |-> "none"]

OpenOffers(k) ==
  {a \in Analyses : candidate[a].status = "open" /\ OwnTarget(a) = k}

----------------------------------------------------------------------------
\* Faulty variant: offers of other captures stay open.
WithOfferBesides(a, k) ==
  [candidate EXCEPT ![a] = [status |-> "open", shown |-> text[k]]]

\* create_adoption_candidates with supersede_open_candidates: the new offer
\* closes those that are open on the same field.
WithOffer(a, k) ==
  [o \in Analyses |->
    IF o = a THEN [status |-> "open", shown |-> text[k]]
    ELSE IF o \in OpenOffers(k) THEN [candidate[o] EXCEPT !.status = "superseded"]
    ELSE candidate[o]]

\* The answer of an analysis is stored and, when the capture has a target in
\* use, offered.  An archived target fails the analysis instead (Fail), and of
\* two answers stored for one target at once the second may lose the request
\* to the unique index uniq_open_adoption_target_field (Die).
Offer(a, g) ==
  LET s == analysis[a].session IN
  /\ StoreSuggestions(a, g)
  /\ IF session[s].bound
     THEN /\ session[s].kind \notin archived
          /\ candidate' = WithOffer(a, session[s].kind)
     ELSE UNCHANGED candidate
  /\ UNCHANGED <<text, archived, audit>>

\* complete_candidate and record_adoption_audit, which keeps the first record.
Settle(a, outcome) ==
  /\ candidate' = [candidate EXCEPT ![a].status = outcome]
  /\ audit' = [audit EXCEPT ![a] = IF @ = "none" THEN outcome ELSE @]

\* adoption_policy.UNCERTAINTY_ACTIONS
Allowed(level, action) ==
  \/ action = "reject"
  \/ action = "edited" /\ level \in {"low", "medium"}
  \/ action = "direct" /\ level = "low"

\* Faulty variant of Valid: the status alone says that a capture is current.
ValidByStatus(a) ==
  LET s == session[analysis[a].session] IN
  /\ s.bound /\ s.kind \notin archived
  /\ s.status = "completed"

\* candidate_validity and _candidate_integrity_valid
Valid(a) ==
  LET s == session[analysis[a].session] IN
  /\ s.bound /\ s.kind \notin archived
  /\ s.status = "completed" /\ ~s.due
  /\ s.revision = analysis[a].revision

\* An edit that comes to the suggested text again counts as direct.
ActionOf(a, v) == IF v = Offered(a) THEN "direct" ELSE "edited"

\* The text is the one the candidate was made for (previous_value_hash).
StillShown(a) == candidate[a].shown = text[OwnTarget(a)]

\* adopt_field_candidate with the suggested text or an edited one.  The actor
\* may have lost the right to edit and the target's form may refuse the text:
\* both end as failed.
Adopt(a, v) ==
  LET may == Allowed(analysis[a].suggests.level, ActionOf(a, v)) IN
  /\ candidate[a].status = "open"
  /\ \/ /\ \/ may /\ ~Valid(a) /\ Settle(a, "stale")
           \/ may /\ Valid(a) /\ ~StillShown(a) /\ Settle(a, "conflict")
           \/ (may => Valid(a)) /\ Settle(a, "failed")
        /\ UNCHANGED text
     \/ /\ may /\ Valid(a) /\ StillShown(a)
        /\ Settle(a, IF v = Offered(a) THEN "adopted" ELSE "adopted_edited")
        /\ text' = [text EXCEPT ![OwnTarget(a)] = v]
  /\ UNCHANGED archived

\* reject_field_candidate
Reject(a) ==
  /\ candidate[a].status = "open"
  /\ \/ /\ ~Valid(a)
        /\ Settle(a, "stale")
     \/ /\ Valid(a)
        /\ \E outcome \in {"rejected", "failed"} : Settle(a, outcome)
  /\ UNCHANGED <<text, archived>>

\* Faulty variant: the last outcome replaces the record.
DiscardOnRecord(a) ==
  /\ candidate[a].status = "conflict"
  /\ candidate' = [candidate EXCEPT ![a].status = "rejected"]
  /\ audit' = [audit EXCEPT ![a] = "rejected"]
  /\ UNCHANGED <<text, archived>>

\* _discard_conflict_candidate: the record of the conflict stays.
DiscardConflict(a) ==
  /\ candidate[a].status = "conflict"
  /\ candidate' = [candidate EXCEPT ![a].status = "rejected"]
  /\ UNCHANGED <<text, archived, audit>>

\* The regular forms of the target, with whatever page they were opened on.
Write(k, v) ==
  /\ text[k] # v
  /\ text' = [text EXCEPT ![k] = v]
  /\ UNCHANGED <<archived, candidate, audit>>

Archive(k) ==
  /\ k \in Archiving \ archived
  /\ archived' = archived \union {k}
  /\ UNCHANGED <<text, candidate, audit>>

\* The candidates of a purged capture go with it; their audit stays.
PurgeOffers(s) ==
  /\ Purge(s)
  /\ candidate' = [a \in Analyses |->
       IF a \in AnalysesOf(s) /\ candidate[a].status # "none"
       THEN [status |-> "purged", shown |-> NoText]
       ELSE candidate[a]]
  /\ UNCHANGED <<text, archived, audit>>

FieldNext ==
  \/ CaptureNext /\ UNCHANGED fieldVars
  \/ \E a \in Analyses, g \in Suggestions : Offer(a, g)
  \/ \E s \in Sessions : PurgeOffers(s)
  \/ /\ \/ \E a \in Analyses :
            \/ \E v \in Texts : Adopt(a, v)
            \/ Reject(a) \/ DiscardConflict(a)
        \/ \E k \in Kinds :
             \/ \E v \in Texts : Write(k, v)
             \/ Archive(k)
     /\ UNCHANGED captureVars

FieldSpec == FieldInit /\ [][FieldNext]_<<captureVars, fieldVars>>

----------------------------------------------------------------------------
(* Properties *)

\* "Exactly one" record per candidate (adoption_audit.py:25): an offer that is
\* settled is on record with its outcome, and what is on record stays, when a
\* conflict is discarded and when the capture is purged.
OutcomesStayOnRecord ==
  [][\A a \in Analyses :
       /\ audit[a] # "none" => audit'[a] = audit[a]
       /\ candidate[a].status = "open" /\ candidate'[a].status \in Settled
            => audit'[a] = candidate'[a].status]_<<captureVars, fieldVars>>

\* A suggestion gets into the target only from a capture that is completed,
\* not over its retention, and still bound to that target.
AdoptsFromLiveCapture ==
  [][\A a \in Analyses :
       /\ candidate[a].status = "open"
       /\ candidate'[a].status \in {"adopted", "adopted_edited"}
       => LET s == session[analysis[a].session] IN
          s.status = "completed" /\ ~s.due /\ s.bound]_<<captureVars, fieldVars>>

\* The offers keep the contract between people and suggestions.
OpenOffer(k) ==
  IF OpenOffers(k) = {} THEN [id |-> NoText, shown |-> NoText]
  ELSE LET a == CHOOSE a \in OpenOffers(k) : TRUE
       IN  [id |-> a, shown |-> candidate[a].shown]

Contract == INSTANCE SuggestionContract WITH
  Offers <- Analyses, Targets <- Kinds, Nothing <- NoText,
  offer <- [k \in Kinds |-> OpenOffer(k)]

KeepsContract == Contract!Spec
============================================================================
