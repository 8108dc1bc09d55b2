------------------------- MODULE FieldAdoptionProofs -------------------------
(***************************************************************************)
(* Theorems about FieldAdoption for any captures, analyses, kinds of       *)
(* target, texts and suggestions.                                          *)
(***************************************************************************)
EXTENDS FieldAdoption, CaptureAnalysisProofs

----------------------------------------------------------------------------
(* The inductive invariant. *)

Candidate == [status : Settled \union {"none", "open", "superseded", "purged"},
              shown : Texts \union {NoText}]

FieldsAreTyped ==
  /\ text \in [Kinds -> Texts] /\ archived \subseteq Archiving
  /\ candidate \in [Analyses -> Candidate]
  /\ audit \in [Analyses -> Settled \union {"none"}]

IsOpen(a) == candidate[a].status = "open"

\* Only an answer makes an offer, and nothing is on record before an offer is
\* settled.  Without it a record could be kept that is not of this offer.
OffersAreUnsettled ==
  \A a \in Analyses :
    /\ analysis[a].status \in {"none", "running"} => candidate[a].status = "none"
    /\ candidate[a].status \in {"none", "open"} => audit[a] = "none"
    /\ IsOpen(a) => analysis[a].status = "success"

\* uniq_open_adoption_target_field
OneOffer ==
  \A a, b \in Analyses : IsOpen(a) /\ IsOpen(b) /\ OwnTarget(a) = OwnTarget(b) => a = b

FInv == CInv /\ FieldsAreTyped /\ OffersAreUnsettled /\ OneOffer

----------------------------------------------------------------------------
(* How a step changes the offers. *)

\* The capture of an answered analysis, and the kind of target it is for.
LEMMA AnswersBelong ==
  ASSUME CInv, NEW a \in Analyses, analysis[a].status \in {"running", "success"}
  PROVE  /\ analysis[a].session \in Sessions
         /\ OwnTarget(a) \in Kinds /\ OwnTarget(a) = session[analysis[a].session].kind
BY DEF CInv, CaptureTypeOK, AnalysesBelong, OwnTarget, TargetOf

\* The first state.
LEMMA InitialFields ==
  ASSUME FieldInit
  PROVE  FInv
<1>1. CInv
  BY InitialCaptures DEF FieldInit
<1>2. NoCandidate \in Candidate /\ NoCandidate.status = "none"
  BY DEF NoCandidate, Candidate
<1>3. \A a \in Analyses : candidate[a] = NoCandidate /\ audit[a] = "none"
  BY DEF FieldInit
<1>4. FieldsAreTyped
  BY <1>2 DEF FieldInit, FieldsAreTyped
<1>5. OffersAreUnsettled /\ OneOffer
  BY <1>2, <1>3 DEF OffersAreUnsettled, OneOffer, IsOpen
<1>6. QED
  BY <1>1, <1>4, <1>5 DEF FInv

\* Steps of captures and analyses leave every offer as it is, and the target
\* it is for.
LEMMA CapturesKeepOffers ==
  ASSUME FInv, CaptureNext \/ UNCHANGED captureVars, UNCHANGED <<candidate, audit>>
  PROVE  /\ CInv' /\ OffersAreUnsettled' /\ OneOffer'
         /\ \A a \in Analyses : IsOpen(a) => OwnTarget(a)' = OwnTarget(a)
<1>1. CInv'
  BY CaptureKeeps DEF FInv, CaptureStep
<1>2. ASSUME NEW a \in Analyses
      PROVE  \/ analysis'[a] = analysis[a]
             \/ /\ analysis[a].status \in {"none", "running"}
                /\ analysis'[a].status \in {"running", "failed"}
  BY <1>2, AnswersStay DEF FInv
<1>3. OffersAreUnsettled'
  BY <1>2 DEF FInv, OffersAreUnsettled, IsOpen
<1>4. ASSUME NEW a \in Analyses, IsOpen(a) PROVE OwnTarget(a)' = OwnTarget(a)
  <2>1. analysis[a].status = "success" /\ analysis'[a] = analysis[a]
    BY <1>2, <1>4 DEF FInv, OffersAreUnsettled
  <2>2. analysis[a].session \in Sessions
    BY <2>1, AnswersBelong DEF FInv
  <2>3. session'[analysis[a].session].kind = session[analysis[a].session].kind
    BY <2>2, KindsStay DEF FInv, CaptureStep
  <2>4. QED
    BY <2>1, <2>3 DEF OwnTarget, TargetOf
<1>5. OneOffer'
  BY <1>4 DEF FInv, OneOffer, IsOpen
<1>6. QED
  BY <1>1, <1>3, <1>4, <1>5

\* Without a step of the captures, every analysis has the target it had.
LEMMA TargetsStay ==
  ASSUME UNCHANGED captureVars
  PROVE  \A a \in Analyses : OwnTarget(a)' = OwnTarget(a)
BY DEF captureVars, OwnTarget, TargetOf

\* Settling an open offer records its outcome and closes it alone.
LEMMA SettleKeeps ==
  ASSUME FInv, NEW a \in Analyses, NEW outcome \in Settled, IsOpen(a), Settle(a, outcome),
         UNCHANGED captureVars, text' \in [Kinds -> Texts], UNCHANGED archived
  PROVE  /\ FInv'
         /\ \A o \in Analyses : o # a => candidate'[o] = candidate[o] /\ audit'[o] = audit[o]
         /\ candidate'[a].status = outcome /\ audit'[a] = outcome /\ ~IsOpen(a)'
<1>1. /\ candidate[a] \in Candidate /\ candidate \in [Analyses -> Candidate]
      /\ audit \in [Analyses -> Settled \union {"none"}] /\ audit[a] = "none"
  BY DEF FInv, FieldsAreTyped, OffersAreUnsettled, IsOpen
<1>2. /\ candidate' \in [Analyses -> Candidate] /\ candidate'[a].status = outcome
      /\ \A o \in Analyses : o # a => candidate'[o] = candidate[o]
  BY <1>1 DEF Settle, Candidate
<1>3. /\ audit' \in [Analyses -> Settled \union {"none"}] /\ audit'[a] = outcome
      /\ \A o \in Analyses : o # a => audit'[o] = audit[o]
  BY <1>1 DEF Settle
<1>4. outcome \notin {"none", "open"} /\ ~IsOpen(a)'
  BY <1>2 DEF Settled, IsOpen
<1>5. CInv' /\ UNCHANGED <<analysis, session>>
  BY CaptureKeeps DEF FInv, CaptureStep, captureVars
<1>6. FieldsAreTyped'
  BY <1>2, <1>3 DEF FInv, FieldsAreTyped
<1>7. OffersAreUnsettled'
  <2>1. analysis[a].status \notin {"none", "running"}
    BY DEF FInv, OffersAreUnsettled, IsOpen
  <2>2. QED
    BY <1>2, <1>3, <1>4, <1>5, <2>1 DEF FInv, OffersAreUnsettled, IsOpen
<1>8. OneOffer'
  BY <1>2, <1>4, TargetsStay DEF FInv, OneOffer, IsOpen
<1>9. QED
  BY <1>2, <1>3, <1>4, <1>5, <1>6, <1>7, <1>8 DEF FInv

\* Adopting and rejecting settle an open offer.
LEMMA AnswersSettle ==
  ASSUME FInv, NEW a \in Analyses, UNCHANGED captureVars,
         (\E v \in Texts : Adopt(a, v)) \/ Reject(a)
  PROVE  /\ IsOpen(a) /\ text' \in [Kinds -> Texts] /\ UNCHANGED archived
         /\ \E outcome \in Settled : Settle(a, outcome)
<1>1. text \in [Kinds -> Texts]
  BY DEF FInv, FieldsAreTyped
<1>2. CASE Reject(a)
  BY <1>1, <1>2 DEF Reject, IsOpen, Settled
<1>3. ASSUME NEW v \in Texts, Adopt(a, v)
      PROVE  /\ IsOpen(a) /\ text' \in [Kinds -> Texts] /\ UNCHANGED archived
             /\ \E outcome \in Settled : Settle(a, outcome)
  <2>1. IsOpen(a) /\ UNCHANGED archived
    BY <1>3 DEF Adopt, IsOpen
  <2>2. UNCHANGED text \/ text' = [text EXCEPT ![OwnTarget(a)] = v]
    BY <1>3 DEF Adopt
  <2>3. \/ Settle(a, "stale") \/ Settle(a, "conflict") \/ Settle(a, "failed")
        \/ Settle(a, IF v = Offered(a) THEN "adopted" ELSE "adopted_edited")
    BY <1>3 DEF Adopt
  <2>4. QED
    BY <1>1, <2>1, <2>2, <2>3 DEF Settled
<1>4. QED
  BY <1>2, <1>3

\* A conflict that is discarded was no open offer.
LEMMA DiscardKeeps ==
  ASSUME FInv, NEW a \in Analyses, DiscardConflict(a), UNCHANGED captureVars
  PROVE  /\ FInv'
         /\ \A o \in Analyses : o # a => candidate'[o] = candidate[o]
         /\ ~IsOpen(a) /\ ~IsOpen(a)'
<1>1. candidate[a] \in Candidate /\ candidate \in [Analyses -> Candidate]
  BY DEF FInv, FieldsAreTyped
<1>2. /\ candidate' \in [Analyses -> Candidate] /\ candidate'[a].status = "rejected"
      /\ \A o \in Analyses : o # a => candidate'[o] = candidate[o]
  BY <1>1 DEF DiscardConflict, Candidate, Settled
<1>3. ~IsOpen(a) /\ ~IsOpen(a)' /\ UNCHANGED <<text, archived, audit>>
  BY <1>2 DEF DiscardConflict, IsOpen
<1>4. CInv' /\ UNCHANGED <<analysis, session>>
  BY CaptureKeeps DEF FInv, CaptureStep, captureVars
<1>5. FieldsAreTyped'
  BY <1>2, <1>3 DEF FInv, FieldsAreTyped
<1>6. OffersAreUnsettled'
  BY <1>2, <1>3, <1>4 DEF FInv, OffersAreUnsettled, IsOpen, DiscardConflict
<1>7. OneOffer'
  BY <1>2, <1>3, TargetsStay DEF FInv, OneOffer, IsOpen
<1>8. QED
  BY <1>2, <1>3, <1>4, <1>5, <1>6, <1>7 DEF FInv

\* An answer makes the only open offer on its target, or none.
LEMMA OfferKeeps ==
  ASSUME FInv, NEW a \in Analyses, NEW g \in Suggestions, Offer(a, g)
  PROVE  /\ FInv' /\ ~IsOpen(a) /\ candidate[a].status = "none"
         /\ UNCHANGED <<text, archived, audit>>
         /\ \A o \in Analyses : OwnTarget(o)' = OwnTarget(o)
         /\ OwnTarget(a) \in Kinds
         /\ UNCHANGED candidate \/ candidate' = WithOffer(a, OwnTarget(a))
<1> DEFINE k == OwnTarget(a)
<1>1. StoreSuggestions(a, g) /\ UNCHANGED <<text, archived, audit>>
        /\ (UNCHANGED candidate \/ candidate' = WithOffer(a, k))
  BY DEF Offer, OwnTarget, TargetOf
<1>2. candidate[a].status = "none" /\ ~IsOpen(a) /\ analysis[a].status = "running"
  BY <1>1 DEF StoreSuggestions, FInv, OffersAreUnsettled, IsOpen
<1>3. k \in Kinds
  BY <1>2, AnswersBelong DEF FInv
<1>4. CInv'
  BY <1>1, CaptureKeeps DEF FInv, CaptureStep
<1>5. /\ session' = session
      /\ analysis'[a].status = "success"
      /\ \A o \in Analyses : analysis'[o].session = analysis[o].session
      /\ \A o \in Analyses : o # a => analysis'[o] = analysis[o]
  BY <1>1 DEF StoreSuggestions, FInv, CInv, CaptureTypeOK
<1>6. \A o \in Analyses : OwnTarget(o)' = OwnTarget(o)
  BY <1>5 DEF OwnTarget, TargetOf
<1> HIDE DEF k
<1>7. CASE UNCHANGED candidate
  <2>1. FieldsAreTyped'
    BY <1>1, <1>7 DEF FInv, FieldsAreTyped
  <2>2. OffersAreUnsettled'
    BY <1>1, <1>2, <1>5, <1>7 DEF FInv, OffersAreUnsettled, IsOpen
  <2>3. OneOffer'
    BY <1>6, <1>7 DEF FInv, OneOffer, IsOpen
  <2>4. QED
    BY <1>1, <1>2, <1>3, <1>4, <1>6, <2>1, <2>2, <2>3 DEF FInv, k
<1>8. CASE candidate' = WithOffer(a, k)
  <2>1. text[k] \in Texts /\ candidate \in [Analyses -> Candidate]
    BY <1>3 DEF FInv, FieldsAreTyped
  <2>2. [status |-> "open", shown |-> text[k]] \in Candidate
    BY <2>1 DEF Candidate
  <2>3. \A o \in Analyses : [candidate[o] EXCEPT !.status = "superseded"] \in Candidate
    BY <2>1 DEF Candidate
  <2>4. candidate' \in [Analyses -> Candidate]
    BY <1>8, <2>1, <2>2, <2>3 DEF WithOffer
  <2>5. candidate'[a].status = "open"
    BY <1>8 DEF WithOffer
  <2>6. \A o \in Analyses : o # a =>
          IF IsOpen(o) /\ OwnTarget(o) = k THEN candidate'[o].status = "superseded"
          ELSE candidate'[o] = candidate[o]
    BY <1>8, <2>1 DEF WithOffer, OpenOffers, IsOpen, Candidate
  <2>7. FieldsAreTyped'
    BY <1>1, <2>4 DEF FInv, FieldsAreTyped
  <2>8. OffersAreUnsettled'
    BY <1>1, <1>2, <1>5, <2>5, <2>6 DEF FInv, OffersAreUnsettled, IsOpen
  <2>9. OneOffer'
    <3>1. ASSUME NEW o \in Analyses, IsOpen(o)'
          PROVE  o = a \/ (IsOpen(o) /\ OwnTarget(o) # k)
      BY <2>6, <3>1 DEF IsOpen
    <3>2. OwnTarget(a) = k
      BY DEF k
    <3>3. QED
      BY <1>6, <3>1, <3>2 DEF FInv, OneOffer
  <2>10. QED
    BY <1>1, <1>2, <1>3, <1>4, <1>6, <2>7, <2>8, <2>9 DEF FInv, k
<1>9. QED
  BY <1>1, <1>7, <1>8 DEF k

\* A purge takes the offers of its capture along; those of others stay.
LEMMA PurgeOffersKeeps ==
  ASSUME FInv, NEW s \in Sessions, PurgeOffers(s)
  PROVE  /\ FInv' /\ UNCHANGED <<text, archived, audit>>
         /\ \A a \in Analyses :
              IF a \in AnalysesOf(s) THEN ~IsOpen(a)'
              ELSE candidate'[a] = candidate[a] /\ (IsOpen(a) => OwnTarget(a)' = OwnTarget(a))
<1>1. Purge(s) /\ UNCHANGED <<text, archived, audit>>
  BY DEF PurgeOffers
<1>2. CInv'
  BY <1>1, CaptureKeeps DEF FInv, CaptureStep
<1>3. candidate \in [Analyses -> Candidate] /\ [status |-> "purged", shown |-> NoText] \in Candidate
  BY DEF FInv, FieldsAreTyped, Candidate
<1>4. /\ candidate' \in [Analyses -> Candidate]
      /\ \A a \in Analyses :
           IF a \in AnalysesOf(s) /\ candidate[a].status # "none" THEN candidate'[a].status = "purged"
           ELSE candidate'[a] = candidate[a]
  BY <1>3 DEF PurgeOffers
<1>5. \A a \in Analyses :
        IF a \in AnalysesOf(s) THEN analysis'[a].status = "failed" ELSE analysis'[a] = analysis[a]
  BY <1>1 DEF Purge
<1>6. \A a \in Analyses : a \in AnalysesOf(s) => ~IsOpen(a)'
  BY <1>4 DEF IsOpen
<1>7. ASSUME NEW a \in Analyses, a \notin AnalysesOf(s), IsOpen(a) PROVE OwnTarget(a)' = OwnTarget(a)
  <2>1. analysis[a].session \in Sessions
    BY <1>7, AnswersBelong DEF FInv, OffersAreUnsettled
  <2>2. session'[analysis[a].session].kind = session[analysis[a].session].kind
    BY <1>1, <2>1, KindsStay DEF FInv, CaptureStep
  <2>3. QED
    BY <1>5, <1>7, <2>2 DEF OwnTarget, TargetOf
<1>8. FieldsAreTyped'
  BY <1>1, <1>4 DEF FInv, FieldsAreTyped
<1>9. OffersAreUnsettled'
  BY <1>1, <1>4, <1>5, <1>6 DEF FInv, OffersAreUnsettled, IsOpen
<1>10. OneOffer'
  <2>1. \A a \in Analyses : IsOpen(a)' => a \notin AnalysesOf(s) /\ IsOpen(a)
    BY <1>4, <1>6 DEF IsOpen
  <2>2. QED
    BY <1>7, <2>1 DEF FInv, OneOffer
<1>11. QED
  BY <1>1, <1>2, <1>4, <1>6, <1>7, <1>8, <1>9, <1>10 DEF FInv

\* Forms and archives touch no offer.
LEMMA TargetsChange ==
  ASSUME FInv, NEW k \in Kinds, (\E v \in Texts : Write(k, v)) \/ Archive(k), UNCHANGED captureVars
  PROVE  FInv' /\ UNCHANGED <<candidate, audit>>
<1>1. UNCHANGED <<candidate, audit>>
  BY DEF Write, Archive
<1>2. FieldsAreTyped'
  BY <1>1 DEF FInv, FieldsAreTyped, Write, Archive
<1>3. QED
  BY <1>1, <1>2, CapturesKeepOffers DEF FInv

\* Every step keeps the invariant.
LEMMA FieldKeeps ==
  ASSUME FInv, [FieldNext]_<<captureVars, fieldVars>>
  PROVE  FInv'
<1>1. ASSUME CaptureNext \/ UNCHANGED captureVars, UNCHANGED fieldVars PROVE FInv'
  <2>1. FieldsAreTyped' /\ UNCHANGED <<candidate, audit>>
    BY <1>1 DEF FInv, FieldsAreTyped, fieldVars
  <2>2. QED
    BY <1>1, <2>1, CapturesKeepOffers DEF FInv
<1>2. CASE \E a \in Analyses, g \in Suggestions : Offer(a, g)
  BY <1>2, OfferKeeps
<1>3. CASE \E s \in Sessions : PurgeOffers(s)
  BY <1>3, PurgeOffersKeeps
<1>4. ASSUME NEW a \in Analyses, UNCHANGED captureVars, (\E v \in Texts : Adopt(a, v)) \/ Reject(a)
      PROVE  FInv'
  BY <1>4, AnswersSettle, SettleKeeps
<1>5. ASSUME NEW a \in Analyses, UNCHANGED captureVars, DiscardConflict(a) PROVE FInv'
  BY <1>5, DiscardKeeps
<1>6. ASSUME NEW k \in Kinds, UNCHANGED captureVars, (\E v \in Texts : Write(k, v)) \/ Archive(k)
      PROVE  FInv'
  BY <1>6, TargetsChange
<1>7. QED
  BY <1>1, <1>2, <1>3, <1>4, <1>5, <1>6 DEF FieldNext

----------------------------------------------------------------------------
(* The theorems. *)

\* The inductive invariant of the field adoption.
LEMMA FieldInvariant == FieldSpec => []FInv
<1>1. FieldInit => FInv
  BY InitialFields
<1>2. FInv /\ [FieldNext]_<<captureVars, fieldVars>> => FInv'
  BY FieldKeeps
<1>3. QED
  BY <1>1, <1>2, PTL DEF FieldSpec

\* Captures, analyses, candidates and their audit keep their types; in
\* particular nobody waits for an analysis that does not run, and no quota is
\* exceeded (prepare_capture_analysis, purge_expired_sessions).
THEOREM FieldTypes == FieldSpec => []FieldTypeOK
<1>1. FInv => FieldTypeOK
  BY DEF FInv, CInv, FieldsAreTyped, FieldTypeOK, Candidate
<1>2. QED
  BY <1>1, FieldInvariant, PTL

\* What is on record stays, and what is settled is put on record.
LEMMA StepRecords ==
  ASSUME FInv, [FieldNext]_<<captureVars, fieldVars>>, NEW a \in Analyses
  PROVE  /\ audit[a] # "none" => audit'[a] = audit[a]
         /\ candidate[a].status = "open" /\ candidate'[a].status \in Settled
              => audit'[a] = candidate'[a].status
<1>1. "open" \notin Settled /\ "superseded" \notin Settled /\ "purged" \notin Settled
  BY DEF Settled
<1>2. ASSUME NEW o \in Analyses, NEW outcome \in Settled, IsOpen(o), Settle(o, outcome),
             UNCHANGED captureVars, text' \in [Kinds -> Texts], UNCHANGED archived
      PROVE  /\ audit[a] # "none" => audit'[a] = audit[a]
             /\ candidate[a].status = "open" /\ candidate'[a].status \in Settled
                  => audit'[a] = candidate'[a].status
  <2>1. audit[o] = "none"
    BY <1>2 DEF FInv, OffersAreUnsettled, IsOpen
  <2>2. QED
    BY <1>1, <1>2, <2>1, SettleKeeps
<1>3. ASSUME NEW o \in Analyses, NEW g \in Suggestions, Offer(o, g)
      PROVE  /\ UNCHANGED audit
             /\ candidate[a].status = "open" => candidate'[a].status \in {"open", "superseded"}
  <2>1. UNCHANGED audit /\ (UNCHANGED candidate \/ candidate' = WithOffer(o, OwnTarget(o)))
    BY <1>3, OfferKeeps
  <2>2. candidate[a] \in Candidate
    BY DEF FInv, FieldsAreTyped
  <2>3. QED
    BY <2>1, <2>2 DEF WithOffer, Candidate
<1>4. ASSUME NEW s \in Sessions, PurgeOffers(s)
      PROVE  /\ UNCHANGED audit
             /\ candidate[a].status = "open" => candidate'[a].status \in {"open", "purged"}
  BY <1>4 DEF PurgeOffers
<1>5. ASSUME UNCHANGED <<candidate, audit>> PROVE UNCHANGED audit /\ UNCHANGED candidate
  BY <1>5
<1>6. ASSUME NEW o \in Analyses, DiscardConflict(o), UNCHANGED captureVars
      PROVE  UNCHANGED audit /\ (candidate[a].status = "open" => candidate'[a] = candidate[a])
  <2>1. UNCHANGED audit
    BY <1>6 DEF DiscardConflict
  <2>2. QED
    BY <1>6, <2>1, DiscardKeeps DEF IsOpen
<1>7. ASSUME NEW o \in Analyses, (\E v \in Texts : Adopt(o, v)) \/ Reject(o), UNCHANGED captureVars
      PROVE  /\ audit[a] # "none" => audit'[a] = audit[a]
             /\ candidate[a].status = "open" /\ candidate'[a].status \in Settled
                  => audit'[a] = candidate'[a].status
  BY <1>2, <1>7, AnswersSettle
<1>8. QED
  BY <1>1, <1>3, <1>4, <1>5, <1>6, <1>7, TargetsChange DEF FieldNext, fieldVars

\* The outcome of every offer is put on record once and stays there, through
\* the discarding of conflicts and the purge of captures (record_adoption_audit).
THEOREM RecordsAreKept == FieldSpec => OutcomesStayOnRecord
<1>1. FInv /\ [FieldNext]_<<captureVars, fieldVars>> =>
        [\A a \in Analyses :
           /\ audit[a] # "none" => audit'[a] = audit[a]
           /\ candidate[a].status = "open" /\ candidate'[a].status \in Settled
                => audit'[a] = candidate'[a].status]_<<captureVars, fieldVars>>
  BY StepRecords
<1>2. QED
  BY <1>1, FieldInvariant, PTL DEF FieldSpec, OutcomesStayOnRecord

IsAdopted(a) == candidate[a].status \in {"adopted", "adopted_edited"}

\* What adopts an offer found its capture valid and its text as it was shown.
LEMMA AdoptionIsValid ==
  ASSUME FInv, NEW a \in Analyses, IsOpen(a), IsAdopted(a)',
         [FieldNext]_<<captureVars, fieldVars>>
  PROVE  Valid(a) /\ StillShown(a)
<1>1. candidate[a] \in Candidate /\ candidate \in [Analyses -> Candidate]
  BY DEF FInv, FieldsAreTyped
<1>2. candidate'[a] # candidate[a] /\ candidate'[a].status \in Settled
  BY DEF IsOpen, IsAdopted, Settled
<1>3. ~UNCHANGED candidate
  BY <1>2
<1>4. ASSUME NEW o \in Analyses, NEW g \in Suggestions, Offer(o, g) PROVE FALSE
  <2>1. UNCHANGED candidate \/ candidate' = WithOffer(o, OwnTarget(o))
    BY <1>4, OfferKeeps
  <2>2. QED
    BY <1>1, <1>2, <2>1 DEF WithOffer, Candidate, IsAdopted
<1>5. ASSUME NEW s \in Sessions, PurgeOffers(s) PROVE FALSE
  BY <1>2, <1>5 DEF PurgeOffers, IsAdopted
<1>6. ASSUME NEW o \in Analyses, DiscardConflict(o) PROVE FALSE
  BY <1>1, <1>2, <1>6 DEF DiscardConflict, IsOpen
<1>7. ASSUME NEW o \in Analyses, Reject(o) PROVE FALSE
  <2>1. PICK outcome \in {"stale", "rejected", "failed"} : Settle(o, outcome)
    BY <1>7 DEF Reject
  <2>2. QED
    BY <1>1, <1>2, <2>1 DEF Settle, IsAdopted, Candidate
<1>8. ASSUME NEW o \in Analyses, NEW v \in Texts, Adopt(o, v) PROVE Valid(a) /\ StillShown(a)
  <2>1. CASE \E outcome \in {"stale", "conflict", "failed"} : Settle(o, outcome)
    BY <1>1, <1>2, <2>1 DEF Settle, IsAdopted, Candidate
  <2>2. CASE /\ Valid(o) /\ StillShown(o)
             /\ Settle(o, IF v = Offered(o) THEN "adopted" ELSE "adopted_edited")
    BY <1>1, <1>2, <2>2 DEF Settle
  <2>3. QED
    BY <1>8, <2>1, <2>2 DEF Adopt
<1>9. QED
  BY <1>3, <1>4, <1>5, <1>6, <1>7, <1>8, TargetsChange DEF FieldNext, fieldVars

\* No suggestion is adopted from a capture that was reopened, has come due,
\* was discarded, or has lost its target since the offer was made
\* (candidate_validity).
THEOREM AdoptionsAreLive == FieldSpec => AdoptsFromLiveCapture
<1>1. FInv /\ [FieldNext]_<<captureVars, fieldVars>> =>
        [\A a \in Analyses :
           /\ candidate[a].status = "open"
           /\ candidate'[a].status \in {"adopted", "adopted_edited"}
           => LET s == session[analysis[a].session] IN
              s.status = "completed" /\ ~s.due /\ s.bound]_<<captureVars, fieldVars>>
  BY AdoptionIsValid DEF Valid, IsOpen, IsAdopted
<1>2. QED
  BY <1>1, FieldInvariant, PTL DEF FieldSpec, AdoptsFromLiveCapture

----------------------------------------------------------------------------
(* The offers keep the contract between people and suggestions. *)

offers == [k \in Kinds |-> OpenOffer(k)]

NobodyOffers == [id |-> NoText, shown |-> NoText]

OfferOf(a) == [id |-> a, shown |-> candidate[a].shown]

\* Of a set with one element that element is chosen.
LEMMA OneIsChosen ==
  ASSUME NEW set, NEW a \in set, \A b \in set : b = a
  PROVE  set # {} /\ (CHOOSE b \in set : TRUE) = a
OBVIOUS

\* The offer of a target is the one that is open on it, ...
LEMMA OfferIsOpen ==
  ASSUME FInv, NEW a \in Analyses, IsOpen(a)
  PROVE  OpenOffer(OwnTarget(a)) = OfferOf(a) /\ OfferOf(a) # NobodyOffers
<1>1. a \in OpenOffers(OwnTarget(a)) /\ \A b \in OpenOffers(OwnTarget(a)) : b = a
  BY DEF OpenOffers, FInv, OneOffer, IsOpen
<1>2. OpenOffer(OwnTarget(a)) = OfferOf(a)
  BY <1>1, OneIsChosen DEF OpenOffer, OfferOf
<1>3. QED
  BY <1>2, FieldAssumption DEF OfferOf, NobodyOffers

\* ... and nobody's, if none is.
LEMMA NoOfferIsOpen ==
  ASSUME NEW k, OpenOffers(k) = {}
  PROVE  OpenOffer(k) = NobodyOffers
BY DEF OpenOffer, NobodyOffers

\* A target whose open offers are left alone keeps its offer.
LEMMA OfferStays ==
  ASSUME NEW k \in Kinds, OpenOffers(k)' = OpenOffers(k),
         \A a \in OpenOffers(k) : candidate'[a] = candidate[a]
  PROVE  OpenOffer(k)' = OpenOffer(k)
BY DEF OpenOffer

\* If every offer stays as it is, the contract sees nothing.
LEMMA OffersStay ==
  ASSUME \A a \in Analyses : IsOpen(a)' <=> IsOpen(a),
         \A a \in Analyses : IsOpen(a) => candidate'[a] = candidate[a] /\ OwnTarget(a)' = OwnTarget(a)
  PROVE  offers' = offers
<1>1. ASSUME NEW k \in Kinds PROVE OpenOffer(k)' = OpenOffer(k)
  <2>1. OpenOffers(k)' = OpenOffers(k) /\ \A a \in OpenOffers(k) : candidate'[a] = candidate[a]
    BY DEF OpenOffers, IsOpen
  <2>2. QED
    BY <2>1, OfferStays
<1>2. QED
  BY <1>1 DEF offers

\* One offer is closed and the others stay.
LEMMA OfferCloses ==
  ASSUME FInv, FInv', NEW a \in Analyses, IsOpen(a), ~IsOpen(a)',
         \A o \in Analyses : o # a => (IsOpen(o)' <=> IsOpen(o)),
         \A o \in Analyses : o # a /\ IsOpen(o) =>
            candidate'[o] = candidate[o] /\ OwnTarget(o)' = OwnTarget(o)
  PROVE  /\ OwnTarget(a) \in Kinds
         /\ offers' = [offers EXCEPT ![OwnTarget(a)] = NobodyOffers]
         /\ offers[OwnTarget(a)] = OfferOf(a) /\ OfferOf(a) # NobodyOffers
<1>1. PICK k \in Kinds : k = OwnTarget(a)
  BY AnswersBelong DEF FInv, OffersAreUnsettled
<1>2. offers[k] = OfferOf(a) /\ OfferOf(a) # NobodyOffers
  BY <1>1, OfferIsOpen DEF offers
<1>3. OpenOffers(k)' = {}
  <2>1. \A o \in Analyses : IsOpen(o)' => IsOpen(o) /\ OwnTarget(o)' = OwnTarget(o) /\ o # a
    OBVIOUS
  <2>2. \A o \in Analyses : IsOpen(o)' => OwnTarget(o)' # k
    BY <1>1, <2>1 DEF FInv, OneOffer
  <2>3. QED
    BY <2>2 DEF OpenOffers, IsOpen
<1>4. OpenOffer(k)' = NobodyOffers
  BY <1>3 DEF OpenOffer, NobodyOffers
<1>5. ASSUME NEW j \in Kinds, j # k PROVE OpenOffer(j)' = OpenOffer(j)
  <2>1. OpenOffers(j)' = OpenOffers(j) /\ \A o \in OpenOffers(j) : candidate'[o] = candidate[o]
    BY <1>1, <1>5 DEF OpenOffers, IsOpen
  <2>2. QED
    BY <2>1, OfferStays
<1>6. offers' = [offers EXCEPT ![k] = NobodyOffers]
  BY <1>1, <1>4, <1>5 DEF offers
<1>7. QED
  BY <1>1, <1>2, <1>6

\* A new offer displaces the one there was.
LEMMA OfferIsMade ==
  ASSUME FInv, NEW a \in Analyses, NEW g \in Suggestions, Offer(a, g), ~UNCHANGED candidate
  PROVE  /\ OwnTarget(a) \in Kinds
         /\ offers' = [offers EXCEPT ![OwnTarget(a)] = [id |-> a, shown |-> text[OwnTarget(a)]]]
         /\ offers[OwnTarget(a)].id # a
<1>1. /\ FInv' /\ ~IsOpen(a) /\ OwnTarget(a) \in Kinds
      /\ \A o \in Analyses : OwnTarget(o)' = OwnTarget(o)
      /\ candidate' = WithOffer(a, OwnTarget(a))
  BY OfferKeeps
<1>2. PICK k \in Kinds : k = OwnTarget(a)
  BY <1>1
<1>3. candidate'[a] = [status |-> "open", shown |-> text[k]]
  BY <1>1, <1>2 DEF WithOffer
<1>4. \A o \in Analyses : o # a =>
        IF IsOpen(o) /\ OwnTarget(o) = k THEN ~IsOpen(o)' ELSE candidate'[o] = candidate[o]
  <2>1. candidate \in [Analyses -> Candidate]
    BY DEF FInv, FieldsAreTyped
  <2>2. QED
    BY <1>1, <1>2, <2>1 DEF WithOffer, OpenOffers, IsOpen, Candidate
<1>5. OpenOffer(k)' = [id |-> a, shown |-> text[k]]
  <2>1. OpenOffers(k)' = {a}
    BY <1>1, <1>2, <1>3, <1>4 DEF OpenOffers, IsOpen
  <2>2. (CHOOSE b \in {a} : TRUE) = a
    OBVIOUS
  <2>3. candidate'[a].shown = text[k]
    BY <1>3
  <2>4. OpenOffer(k)' = [id |-> CHOOSE b \in {a} : TRUE,
                         shown |-> candidate'[CHOOSE b \in {a} : TRUE].shown]
    BY <2>1 DEF OpenOffer
  <2>5. QED
    BY <2>2, <2>3, <2>4
<1>6. ASSUME NEW j \in Kinds, j # k PROVE OpenOffer(j)' = OpenOffer(j)
  <2>1. OpenOffers(j)' = OpenOffers(j) /\ \A o \in OpenOffers(j) : candidate'[o] = candidate[o]
    BY <1>1, <1>2, <1>4, <1>6 DEF OpenOffers, IsOpen
  <2>2. QED
    BY <2>1, OfferStays
<1>7. offers' = [offers EXCEPT ![k] = [id |-> a, shown |-> text[k]]]
  BY <1>5, <1>6 DEF offers
<1>8. OpenOffer(k).id # a
  <2>1. CASE OpenOffers(k) = {}
    BY <2>1, FieldAssumption DEF OpenOffer
  <2>2. CASE OpenOffers(k) # {}
    <3>1. (CHOOSE o \in OpenOffers(k) : TRUE) \in OpenOffers(k)
      BY <2>2
    <3>2. a \notin OpenOffers(k)
      BY <1>1 DEF OpenOffers, IsOpen
    <3>3. QED
      BY <2>2, <3>1, <3>2 DEF OpenOffer
  <2>3. QED
    BY <2>1, <2>2
<1>9. QED
  BY <1>2, <1>7, <1>8 DEF offers

\* The contract, as this module instantiates it, speaks about these offers.
LEMMA ContractOnOffers ==
  /\ Contract!NoOffer = NobodyOffers
  /\ \A t : Contract!Withdraw(t) <=>
       offers[t] # NobodyOffers /\ offers' = [offers EXCEPT ![t] = NobodyOffers] /\ UNCHANGED text
  /\ \A t : Contract!Take(t) <=>
       /\ offers[t] # NobodyOffers /\ offers[t].shown = text[t]
       /\ \E x \in Texts : text' = [text EXCEPT ![t] = x]
       /\ offers' = [offers EXCEPT ![t] = NobodyOffers]
  /\ \A t, o : Contract!Make(t, o) <=>
       /\ offers[t].id # o
       /\ offers' = [offers EXCEPT ![t] = [id |-> o, shown |-> text[t]]] /\ UNCHANGED text
  /\ \A t : Contract!Write(t) <=>
       (\E x \in Texts : text' = [text EXCEPT ![t] = x]) /\ UNCHANGED offers
BY DEF Contract!NoOffer, Contract!Withdraw, Contract!Take, Contract!Make, Contract!Write,
   NobodyOffers, offers

\* An offer that is settled is taken or withdrawn.
LEMMA SettlingIsContracted ==
  ASSUME FInv, NEW a \in Analyses, UNCHANGED captureVars, (\E v \in Texts : Adopt(a, v)) \/ Reject(a)
  PROVE  Contract!Next
<1>1. /\ IsOpen(a) /\ text' \in [Kinds -> Texts] /\ UNCHANGED archived
      /\ \E outcome \in Settled : Settle(a, outcome)
  BY AnswersSettle
<1>2. /\ FInv' /\ ~IsOpen(a)'
      /\ \A o \in Analyses : o # a => candidate'[o] = candidate[o]
  BY <1>1, SettleKeeps
<1>3. \A o \in Analyses : o # a => (IsOpen(o)' <=> IsOpen(o)) /\ OwnTarget(o)' = OwnTarget(o)
  BY <1>2, TargetsStay DEF IsOpen
<1>4. PICK k \in Kinds : k = OwnTarget(a)
  BY <1>1, AnswersBelong DEF FInv, OffersAreUnsettled
<1>5. /\ offers' = [offers EXCEPT ![k] = NobodyOffers]
      /\ offers[k] = OfferOf(a) /\ OfferOf(a) # NobodyOffers
  BY <1>1, <1>2, <1>3, <1>4, OfferCloses
<1>6. CASE UNCHANGED text
  BY <1>4, <1>5, <1>6, ContractOnOffers DEF Contract!Next
<1>7. CASE StillShown(a) /\ \E v \in Texts : text' = [text EXCEPT ![k] = v]
  <2>1. offers[k].shown = text[k]
    BY <1>4, <1>5, <1>7 DEF OfferOf, StillShown
  <2>2. QED
    BY <1>4, <1>5, <1>7, <2>1, ContractOnOffers DEF Contract!Next
<1>8. UNCHANGED text \/ (StillShown(a) /\ \E v \in Texts : text' = [text EXCEPT ![k] = v])
  BY <1>4 DEF Adopt, Reject
<1>9. QED
  BY <1>6, <1>7, <1>8

\* A purged capture withdraws the offer it had, if it had one.
LEMMA PurgeIsContracted ==
  ASSUME FInv, NEW s \in Sessions, PurgeOffers(s)
  PROVE  Contract!Next \/ UNCHANGED <<text, offers>>
<1>1. /\ FInv' /\ UNCHANGED text
      /\ \A a \in Analyses :
           IF a \in AnalysesOf(s) THEN ~IsOpen(a)'
           ELSE candidate'[a] = candidate[a] /\ (IsOpen(a) => OwnTarget(a)' = OwnTarget(a))
  BY PurgeOffersKeeps
<1>2. CASE \A a \in AnalysesOf(s) : ~IsOpen(a)
  <2>1. \A a \in Analyses : IsOpen(a)' <=> IsOpen(a)
    BY <1>1, <1>2 DEF IsOpen, AnalysesOf
  <2>2. QED
    BY <1>1, <1>2, <2>1, OffersStay
<1>3. ASSUME NEW a \in AnalysesOf(s), IsOpen(a) PROVE Contract!Next
  <2>1. a \in Analyses /\ OwnTarget(a) = session[s].kind
    BY DEF AnalysesOf, OwnTarget, TargetOf
  <2>2. \A o \in AnalysesOf(s) : o # a => ~IsOpen(o)
    BY <1>3, <2>1 DEF FInv, OneOffer, AnalysesOf, OwnTarget, TargetOf
  <2>3. /\ \A o \in Analyses : o # a => (IsOpen(o)' <=> IsOpen(o))
        /\ \A o \in Analyses : o # a /\ IsOpen(o) =>
             candidate'[o] = candidate[o] /\ OwnTarget(o)' = OwnTarget(o)
        /\ ~IsOpen(a)'
    BY <1>1, <2>2 DEF IsOpen, AnalysesOf
  <2>4. PICK k \in Kinds : k = OwnTarget(a)
    BY <1>3, <2>1, AnswersBelong DEF FInv, OffersAreUnsettled
  <2>5. offers[k] # NobodyOffers /\ offers' = [offers EXCEPT ![k] = NobodyOffers]
    BY <1>1, <1>3, <2>1, <2>3, <2>4, OfferCloses
  <2>6. QED
    BY <1>1, <2>4, <2>5, ContractOnOffers DEF Contract!Next
<1>4. QED
  BY <1>2, <1>3

\* However captures, analyses, forms and several people interleave, a text has
\* at most one offer, an offer is taken only while the text is the one it was
\* made for, and it is settled once (supersede_open_candidates,
\* adopt_field_candidate, uniq_open_adoption_target_field).
THEOREM ContractIsKept == FieldSpec => KeepsContract
<1>1. FieldInit => Contract!Init
  <2>1. SUFFICES ASSUME FieldInit PROVE text \in [Kinds -> Texts] /\ offers = [k \in Kinds |-> NobodyOffers]
    BY DEF Contract!Init, Contract!NoOffer, offers, NobodyOffers
  <2>2. \A k \in Kinds : OpenOffers(k) = {}
    BY <2>1 DEF FieldInit, NoCandidate, OpenOffers
  <2>3. QED
    BY <2>1, <2>2, NoOfferIsOpen DEF FieldInit, offers
<1>2. FInv /\ [FieldNext]_<<captureVars, fieldVars>> => [Contract!Next]_(Contract!vars)
  <2>1. SUFFICES ASSUME FInv, [FieldNext]_<<captureVars, fieldVars>>
                 PROVE  Contract!Next \/ UNCHANGED <<text, offers>>
    BY DEF Contract!vars, offers
  <2>2. ASSUME CaptureNext \/ UNCHANGED captureVars, UNCHANGED candidate, UNCHANGED audit
        PROVE  UNCHANGED offers
    BY <2>1, <2>2, CapturesKeepOffers, OffersStay DEF IsOpen
  <2>3. ASSUME NEW a \in Analyses, NEW g \in Suggestions, Offer(a, g)
        PROVE  Contract!Next \/ UNCHANGED <<text, offers>>
    <3>1. CASE UNCHANGED candidate
      BY <2>1, <2>3, <3>1, OfferKeeps, OffersStay DEF IsOpen
    <3>2. CASE ~UNCHANGED candidate
      <4>1. /\ OwnTarget(a) \in Kinds /\ offers[OwnTarget(a)].id # a
            /\ offers' = [offers EXCEPT ![OwnTarget(a)] = [id |-> a, shown |-> text[OwnTarget(a)]]]
        BY <2>1, <2>3, <3>2, OfferIsMade
      <4>2. UNCHANGED text
        BY <2>3 DEF Offer
      <4>3. Contract!Make(OwnTarget(a), a)
        BY <4>1, <4>2, ContractOnOffers
      <4>4. QED
        BY <4>1, <4>3 DEF Contract!Next
    <3>3. QED
      BY <3>1, <3>2
  <2>4. ASSUME NEW a \in Analyses, DiscardConflict(a), UNCHANGED captureVars
        PROVE  UNCHANGED <<text, offers>>
    BY <2>1, <2>4, DiscardKeeps, TargetsStay, OffersStay DEF IsOpen, DiscardConflict
  <2>5. ASSUME NEW k \in Kinds, (\E v \in Texts : Write(k, v)) \/ Archive(k), UNCHANGED captureVars
        PROVE  Contract!Next \/ UNCHANGED <<text, offers>>
    <3>1. UNCHANGED candidate /\ UNCHANGED audit
      BY <2>5 DEF Write, Archive
    <3>2. UNCHANGED offers
      BY <2>2, <2>5, <3>1
    <3>3. QED
      BY <2>5, <3>2, ContractOnOffers DEF Contract!Next, Write, Archive
  <2>6. CASE (CaptureNext \/ UNCHANGED captureVars) /\ UNCHANGED fieldVars
    BY <2>2, <2>6 DEF fieldVars
  <2>7. QED
    BY <2>1, <2>3, <2>4, <2>5, <2>6, SettlingIsContracted, PurgeIsContracted DEF FieldNext
<1>3. QED
  BY <1>1, <1>2, FieldInvariant, PTL DEF FieldSpec, KeepsContract, Contract!Spec
============================================================================
