------------------------ MODULE CaptureAnalysisProofs ------------------------
(***************************************************************************)
(* Lemmas about CaptureAnalysis for any captures and analyses, any quota   *)
(* and any suggestions; the adoption of fields and the structured adoption *)
(* rest on them.                                                           *)
(***************************************************************************)
EXTENDS CaptureAnalysis, TLAPS

\* An analysis that runs or has an answer belongs to a capture, an answer is
\* one there may be, and while an analysis runs its capture stays completed:
\* otherwise a purge could take the row away under a request that waits.
AnalysesBelong ==
  \A a \in Analyses :
    /\ analysis[a].status \in {"running", "success"} => analysis[a].session \in Sessions
    /\ analysis[a].status = "running" => session[analysis[a].session].status = "completed"
    /\ analysis[a].status = "success" => analysis[a].suggests \in Suggestions

CInv == CaptureTypeOK /\ AnalysesBelong

\* Every step this module or one that extends it takes on the captures.
CaptureStep ==
  \/ CaptureNext
  \/ \E a \in Analyses, g \in Suggestions : StoreSuggestions(a, g)
  \/ \E s \in Sessions : Purge(s)
  \/ UNCHANGED captureVars

SessionRow == [kind : Kinds, revision : 0..MaxRevision, due : BOOLEAN, bound : BOOLEAN,
               status : Editable \union {"discarded", "expired", "purged"}]

AnalysisRow == [session : Sessions \union {NoSession}, revision : 0..MaxRevision,
                status : {"none", "running", "success", "failed"},
                suggests : Suggestions \union {NoSuggestion}]

\* The first state.
LEMMA InitialCaptures ==
  ASSUME CaptureInit
  PROVE  CInv
<1>1. 0 \in 0..MaxRevision /\ 0 \in 0..MaxPerCapture
  BY CaptureAssumption
<1>2. session \in [Sessions -> SessionRow]
  <2>1. \A s \in Sessions : session[s] \in SessionRow
    BY <1>1 DEF CaptureInit, SessionRow, Editable
  <2>2. QED
    BY <2>1 DEF CaptureInit
<1>3. analysis \in [Analyses -> AnalysisRow] /\ \A a \in Analyses : analysis[a].status = "none"
  BY <1>1 DEF CaptureInit, AnalysisRow
<1>4. calls \in [Sessions -> 0..MaxPerCapture] /\ waiting = {}
  BY <1>1 DEF CaptureInit
<1>5. QED
  BY <1>2, <1>3, <1>4 DEF CInv, CaptureTypeOK, AnalysesBelong, SessionRow, AnalysisRow

\* A step that changes one capture, but not under a running analysis.
LEMMA SessionStepKeeps ==
  ASSUME CInv, NEW s \in Sessions, NEW new \in SessionRow,
         session' = [session EXCEPT ![s] = new], UNCHANGED <<analysis, calls, waiting>>,
         session[s].status = "completed" =>
           new.status = "completed" \/ \A a \in AnalysesOf(s) : analysis[a].status # "running"
  PROVE  CInv'
<1>1. CaptureTypeOK'
  BY DEF CInv, CaptureTypeOK, SessionRow
<1>2. AnalysesBelong'
  BY DEF CInv, CaptureTypeOK, AnalysesBelong, AnalysesOf
<1>3. QED
  BY <1>1, <1>2 DEF CInv

\* A step on one analysis after which it runs no more and nobody waits for it.
LEMMA AnswerStepKeeps ==
  ASSUME CInv, NEW a \in Analyses, NEW new \in AnalysisRow,
         analysis' = [analysis EXCEPT ![a] = new], waiting' = waiting \ {a},
         UNCHANGED <<session, calls>>,
         analysis[a].status = "running", new.session = analysis[a].session,
         new.status \in {"failed", "success"}, new.status = "success" => new.suggests \in Suggestions
  PROVE  CInv'
<1>1. CaptureTypeOK'
  BY DEF CInv, CaptureTypeOK, AnalysisRow
<1>2. AnalysesBelong'
  BY DEF CInv, CaptureTypeOK, AnalysesBelong
<1>3. QED
  BY <1>1, <1>2 DEF CInv

\* Saving, completing, discarding, lapsing, expiring, binding.
LEMMA CaptureCommandsKeep ==
  ASSUME CInv, NEW s \in Sessions,
         \/ Save(s) \/ Complete(s) \/ Discard(s) \/ Lapse(s) \/ Expire(s) \/ Materialise(s)
         \/ \E b \in BOOLEAN : Bind(s, b)
  PROVE  CInv'
<1>1. session \in [Sessions -> SessionRow] /\ session[s] \in SessionRow /\ MaxRevision \in Nat
  BY CaptureAssumption DEF CInv, CaptureTypeOK, SessionRow
<1>2. CASE Save(s)
  <2> DEFINE new == [session[s] EXCEPT !.revision = @ + 1, !.due = FALSE]
  <2>1. new \in SessionRow /\ new.status = session[s].status
    <3>1. session[s].revision + 1 \in 0..MaxRevision
      BY <1>1, <1>2 DEF Save, SessionRow
    <3>2. QED
      BY <1>1, <3>1 DEF SessionRow
  <2>2. session' = [session EXCEPT ![s] = new]
    BY <1>1, <1>2 DEF Save
  <2> HIDE DEF new
  <2>3. QED
    BY <1>2, <2>1, <2>2, SessionStepKeeps DEF Save
<1>3. CASE Complete(s)
  <2> DEFINE new == [session[s] EXCEPT !.revision = @ + 1, !.due = FALSE, !.status = "completed"]
  <2>1. new \in SessionRow /\ new.status = "completed"
    <3>1. session[s].revision + 1 \in 0..MaxRevision
      BY <1>1, <1>3 DEF Complete, SessionRow
    <3>2. QED
      BY <1>1, <3>1 DEF SessionRow, Editable
  <2>2. session' = [session EXCEPT ![s] = new]
    BY <1>1, <1>3 DEF Complete
  <2> HIDE DEF new
  <2>3. QED
    BY <1>3, <2>1, <2>2, SessionStepKeeps DEF Complete
<1>4. CASE Discard(s)
  <2> DEFINE new == [session[s] EXCEPT !.revision = @ + 1, !.status = "discarded"]
  <2>1. new \in SessionRow /\ session[s].status = "draft"
    BY <1>1, <1>4 DEF Discard, SessionRow, MayEdit
  <2>2. session' = [session EXCEPT ![s] = new]
    BY <1>1, <1>4 DEF Discard
  <2> HIDE DEF new
  <2>3. QED
    BY <1>4, <2>1, <2>2, SessionStepKeeps DEF Discard
<1>5. CASE Lapse(s)
  <2> DEFINE new == [session[s] EXCEPT !.due = TRUE]
  <2>1. new \in SessionRow /\ new.status = session[s].status
    BY <1>1 DEF SessionRow
  <2>2. session' = [session EXCEPT ![s] = new]
    BY <1>1, <1>5 DEF Lapse
  <2> HIDE DEF new
  <2>3. QED
    BY <1>5, <2>1, <2>2, SessionStepKeeps DEF Lapse
<1>6. CASE Expire(s)
  <2> DEFINE new == [session[s] EXCEPT !.status = "expired"]
  <2>1. new \in SessionRow
    BY <1>1 DEF SessionRow
  <2>2. session' = [session EXCEPT ![s] = new]
    BY <1>1, <1>6 DEF Expire
  <2> HIDE DEF new
  <2>3. QED
    BY <1>6, <2>1, <2>2, SessionStepKeeps DEF Expire, Expirable
<1>7. ASSUME NEW b \in BOOLEAN, session' = [session EXCEPT ![s].bound = b],
             UNCHANGED <<analysis, calls, waiting>>
      PROVE  CInv'
  <2> DEFINE new == [session[s] EXCEPT !.bound = b]
  <2>1. new \in SessionRow /\ new.status = session[s].status
    BY <1>1 DEF SessionRow
  <2>2. session' = [session EXCEPT ![s] = new]
    BY <1>1, <1>7
  <2> HIDE DEF new
  <2>3. QED
    BY <1>7, <2>1, <2>2, SessionStepKeeps
<1>8. CASE Materialise(s)
  BY <1>7, <1>8 DEF Materialise
<1>9. CASE \E b \in BOOLEAN : Bind(s, b)
  BY <1>7, <1>9 DEF Bind
<1>10. QED
  BY <1>2, <1>3, <1>4, <1>5, <1>6, <1>8, <1>9

\* An analysis is prepared for a completed capture within its quota.
LEMMA PrepareKeeps ==
  ASSUME CInv, NEW s \in Sessions, NEW a \in Analyses, Prepare(s, a)
  PROVE  CInv'
<1>1. session[s] \in SessionRow /\ MaxPerCapture \in Nat
  BY CaptureAssumption DEF CInv, CaptureTypeOK, SessionRow
<1>2. [session |-> s, revision |-> session[s].revision, status |-> "running",
       suggests |-> NoSuggestion] \in AnalysisRow
  BY <1>1 DEF AnalysisRow, SessionRow
<1>3. calls' \in [Sessions -> 0..MaxPerCapture]
  BY <1>1 DEF Prepare, QuotaLeft, CInv, CaptureTypeOK
<1>4. session' \in [Sessions -> SessionRow]
      /\ \A o \in Sessions : session'[o].status = session[o].status
  BY ZenonT(40) DEF Prepare, CInv, CaptureTypeOK, SessionRow
<1>5. analysis' \in [Analyses -> AnalysisRow]
      /\ analysis'[a].status = "running" /\ analysis'[a].session = s
      /\ \A o \in Analyses : o # a => analysis'[o] = analysis[o]
  BY <1>2 DEF Prepare, CInv, CaptureTypeOK, AnalysisRow
<1>6. CaptureTypeOK'
  BY <1>3, <1>4, <1>5 DEF Prepare, CInv, CaptureTypeOK, SessionRow, AnalysisRow
<1>7. AnalysesBelong'
  BY <1>4, <1>5 DEF Prepare, CInv, AnalysesBelong
<1>8. QED
  BY <1>6, <1>7 DEF CInv

\* A purge takes the analyses of a capture along, none of which runs.
LEMMA PurgeKeeps ==
  ASSUME CInv, NEW s \in Sessions, Purge(s)
  PROVE  CInv'
<1>1. \A a \in waiting : a \notin AnalysesOf(s)
  BY DEF Purge, AnalysesOf, CInv, CaptureTypeOK, AnalysesBelong
<1>2. session' \in [Sessions -> SessionRow]
      /\ \A o \in Sessions : o # s => session'[o] = session[o]
  <2> DEFINE new == [session[s] EXCEPT !.status = "purged", !.due = FALSE, !.bound = FALSE]
  <2>1. session \in [Sessions -> SessionRow]
    BY DEF CInv, CaptureTypeOK, SessionRow
  <2>2. new \in SessionRow
    BY <2>1 DEF SessionRow
  <2>3. session' = [session EXCEPT ![s] = new]
    BY <2>1 DEF Purge
  <2>4. QED
    BY <2>1, <2>2, <2>3
<1>3. calls' \in [Sessions -> 0..MaxPerCapture]
  BY CaptureAssumption DEF Purge, CInv, CaptureTypeOK
<1>4. [session |-> NoSession, revision |-> 0, status |-> "failed", suggests |-> NoSuggestion]
        \in AnalysisRow
  BY CaptureAssumption DEF AnalysisRow
<1>5. analysis' \in [Analyses -> AnalysisRow]
      /\ \A a \in Analyses : IF a \in AnalysesOf(s) THEN analysis'[a].status = "failed"
                             ELSE analysis'[a] = analysis[a]
  BY <1>4 DEF Purge, CInv, CaptureTypeOK, AnalysisRow
<1>6. CaptureTypeOK'
  BY <1>1, <1>2, <1>3, <1>5 DEF Purge, CInv, CaptureTypeOK, SessionRow, AnalysisRow
<1>7. AnalysesBelong'
  BY <1>2, <1>5 DEF CInv, AnalysesBelong, AnalysesOf
<1>8. QED
  BY <1>6, <1>7 DEF CInv

\* An answer, or none, ends an analysis.
LEMMA AnswersKeep ==
  ASSUME CInv, NEW a \in Analyses,
         Fail(a) \/ Die(a) \/ \E g \in Suggestions : StoreSuggestions(a, g)
  PROVE  CInv'
<1>1. analysis \in [Analyses -> AnalysisRow] /\ analysis[a] \in AnalysisRow
  BY DEF CInv, CaptureTypeOK, AnalysisRow
<1>2. CASE Fail(a)
  <2> DEFINE new == [analysis[a] EXCEPT !.status = "failed"]
  <2>1. new \in AnalysisRow /\ new.status = "failed" /\ new.session = analysis[a].session
    BY <1>1 DEF AnalysisRow
  <2>2. analysis' = [analysis EXCEPT ![a] = new]
    BY <1>1, <1>2 DEF Fail
  <2> HIDE DEF new
  <2>3. QED
    BY <1>2, <2>1, <2>2, AnswerStepKeeps DEF Fail
<1>3. ASSUME NEW g \in Suggestions, StoreSuggestions(a, g) PROVE CInv'
  <2> DEFINE new == [analysis[a] EXCEPT !.status = "success", !.suggests = g]
  <2>1. new \in AnalysisRow /\ new.status = "success" /\ new.session = analysis[a].session
        /\ new.suggests = g
    BY <1>1 DEF AnalysisRow
  <2>2. analysis' = [analysis EXCEPT ![a] = new]
    BY <1>1, <1>3 DEF StoreSuggestions
  <2> HIDE DEF new
  <2>3. QED
    BY <1>3, <2>1, <2>2, AnswerStepKeeps DEF StoreSuggestions
<1>4. CASE Die(a)
  BY <1>4 DEF Die, CInv, CaptureTypeOK, AnalysesBelong
<1>5. QED
  BY <1>2, <1>3, <1>4

\* Every step keeps the captures and analyses in order.
LEMMA CaptureKeeps ==
  ASSUME CInv, CaptureStep
  PROVE  CInv'
<1>1. CASE CaptureNext
  BY <1>1, CaptureCommandsKeep, PrepareKeeps, AnswersKeep DEF CaptureNext
<1>2. CASE UNCHANGED captureVars
  BY <1>2 DEF captureVars, CInv, CaptureTypeOK, AnalysesBelong
<1>3. QED
  BY <1>1, <1>2, AnswersKeep, PurgeKeeps DEF CaptureStep

\* A capture keeps its kind, and no capture appears.
LEMMA KindsStay ==
  ASSUME CInv, CaptureStep
  PROVE  \A s \in Sessions : session'[s].kind = session[s].kind
<1>1. session \in [Sessions -> SessionRow]
  BY DEF CInv, CaptureTypeOK, SessionRow
<1>2. ASSUME NEW s \in Sessions, NEW new \in SessionRow, new.kind = session[s].kind,
             session' = [session EXCEPT ![s] = new]
      PROVE  \A o \in Sessions : session'[o].kind = session[o].kind
  BY <1>1, <1>2
<1>3. ASSUME NEW s \in Sessions,
             \/ Save(s) \/ Complete(s) \/ Discard(s) \/ Lapse(s) \/ Expire(s) \/ Materialise(s)
             \/ \E b \in BOOLEAN : Bind(s, b)
             \/ \E a \in Analyses : Prepare(s, a)
             \/ Purge(s)
      PROVE  \A o \in Sessions : session'[o].kind = session[o].kind
  BY <1>1, <1>3 DEF Save, Complete, Discard, Lapse, Expire, Materialise, Bind, Prepare, Purge,
     SessionRow
<1>4. CASE UNCHANGED session
  BY <1>4
<1>5. QED
  BY <1>3, <1>4 DEF CaptureStep, CaptureNext, captureVars, Fail, Die, StoreSuggestions

\* What has been answered or has failed stays as it is until it is purged, and
\* only what has not been answered is prepared, waited for or failed.
LEMMA AnswersStay ==
  ASSUME CInv, CaptureNext \/ UNCHANGED captureVars, NEW a \in Analyses
  PROVE  \/ analysis'[a] = analysis[a]
         \/ analysis[a].status \in {"none", "running"} /\ analysis'[a].status \in {"running", "failed"}
<1>1. analysis \in [Analyses -> AnalysisRow]
  BY DEF CInv, CaptureTypeOK, AnalysisRow
<1>2. ASSUME NEW s \in Sessions, NEW o \in Analyses, Prepare(s, o)
      PROVE  \/ analysis'[a] = analysis[a]
             \/ analysis[a].status = "none" /\ analysis'[a].status = "running"
  BY <1>1, <1>2 DEF Prepare
<1>3. ASSUME NEW o \in Analyses, Fail(o)
      PROVE  \/ analysis'[a] = analysis[a]
             \/ analysis[a].status = "running" /\ analysis'[a].status = "failed"
  BY <1>1, <1>3 DEF Fail, AnalysisRow
<1>4. CASE UNCHANGED analysis
  BY <1>4
<1>5. QED
  BY <1>2, <1>3, <1>4 DEF CaptureNext, captureVars, Save, Complete, Discard, Lapse, Expire,
     Materialise, Bind, Die
============================================================================
