------------------------ MODULE UseCaseLifecycleProofs ------------------------
(***************************************************************************)
(* Theorems about UseCaseLifecycle, for any number of people, decisions,   *)
(* assessments and pages.  The lemmas are stated for a step of the         *)
(* lifecycle or of a request that loads a page of another component, so    *)
(* that they can be cited for the composition with the delivery packages.  *)
(***************************************************************************)
EXTENDS UseCaseLifecycle, SequenceTheorems, WellFoundedInduction, TLAPS

----------------------------------------------------------------------------
(* The inductive invariant. *)

UseCaseRow == [status : Statuses, decision : Kinds \cup {"clarification", "ready"},
               owner : Owners, technical : TechnicalOwners]

Decision == [kind : Kinds, by : Coordinators, assessment : Nat, basis : Nat \cup {None},
             second : Coordinators \cup {None}, final : BOOLEAN, returned : BOOLEAN]

RowsAreTyped ==
  /\ useCase \in UseCaseRow
  /\ reviewed \in Statuses
  /\ assessments \in Seq(Coordinators \cup {None})
  /\ decisions \in Seq(Decision)
  /\ \A d \in DOMAIN decisions : decisions[d].assessment \in 1..Len(assessments)
  /\ screening \in Screening
  /\ outcome \in [revision : 1..MaxRevisions, confirmed : BOOLEAN]

\* What a page carries was once in the rows: a row of the use case, or a
\* decision that asks for a second person.
PagesWereRead ==
  \A p \in pages :
    /\ p.kind = "use_case" => p.row \in UseCaseRow
    /\ p.kind = "decision" => /\ p.decision \in DOMAIN decisions
                              /\ decisions[p.decision].kind = "approved_with_conditions"

\* Later approvals rest on later revisions of the outcome.  Without it the
\* confirmation of an old proposal could make a younger approval with an older
\* basis the one that counts.
BasesAdvance ==
  \A d \in DOMAIN decisions : decisions[d].kind \in Approved =>
    /\ decisions[d].basis \in 1..outcome.revision
    /\ \A e \in DOMAIN decisions : (e <= d /\ decisions[e].kind \in Approved) =>
         decisions[e].basis <= decisions[d].basis

LInv ==
  /\ RowsAreTyped /\ PagesWereRead /\ BasesAdvance
  /\ ApprovalIsDecided /\ OneOpenSecondApproval

\* A step of the lifecycle, or of a request that keeps a page of a package.
LifecycleStep ==
  \/ \E handover \in BOOLEAN : LifecycleNext(handover)
  \/ \E page : page.kind \notin {"use_case", "decision"} /\ Load(page)
  \/ UNCHANGED lifecycleVars

----------------------------------------------------------------------------
(* Facts about the operators. *)

\* Every non-empty set of numbers up to n has a greatest one.
LEMMA GreatestExists ==
  ASSUME NEW n \in Nat, NEW set \in SUBSET (1..n), set # {}
  PROVE  \E d \in set : \A e \in set : e <= d
<1> DEFINE T == {n - d : d \in set}
           R == OpToRel(<, Nat)
<1>1. T \in SUBSET Nat /\ T # {}
  <2>1. \A d \in set : n - d \in Nat
    OBVIOUS
  <2>2. QED
    BY <2>1
<1>2. \E x \in T : \A y \in T : ~(<<y, x>> \in R)
  <2> HIDE DEF T, R
  <2>1. IsWellFoundedOn(R, Nat)
    BY NatLessThanWellFounded DEF R
  <2>2. QED
    BY <1>1, <2>1, WFMin
<1>3. PICK x \in T : \A y \in T : ~(<<y, x>> \in R)
  BY <1>2
<1>4. PICK d \in set : x = n - d
  BY <1>3
<1>5. ASSUME NEW e \in set PROVE e <= d
  <2>1. n - e \in T /\ n - e \in Nat /\ x \in Nat
    BY <1>1, <1>3
  <2>2. ~(n - e < x)
    BY <1>3, <2>1 DEF OpToRel
  <2>3. QED
    BY <1>4, <2>2
<1>6. QED
  BY <1>5

\* Every non-empty set of decisions has a latest one.
LEMMA LatestExists ==
  ASSUME NEW n \in Nat, NEW set \in SUBSET (1..n), set # {}
  PROVE  Latest(set) \in set /\ \A e \in set : e <= Latest(set)
BY GreatestExists DEF Latest

\* The decision no other one follows is the latest.
LEMMA LatestIs ==
  ASSUME NEW n \in Nat, NEW set \in SUBSET (1..n), NEW d \in set, \A e \in set : e <= d
  PROVE  Latest(set) = d
<1>1. Latest(set) \in set /\ \A e \in set : e <= Latest(set)
  <2>1. set # {}
    OBVIOUS
  <2>2. QED
    BY <2>1, LatestExists
<1>2. Latest(set) <= d /\ d <= Latest(set)
  BY <1>1
<1>3. Latest(set) \in 1..n /\ d \in 1..n
  BY <1>1
<1>4. QED
  BY <1>2, <1>3

\* Rows a request may write back are typed.
LEMMA RowsAreRows ==
  ASSUME RowsAreTyped, PagesWereRead
  PROVE  Rows \subseteq UseCaseRow
BY DEF Rows, RowsAreTyped, PagesWereRead

\* A decision by its number, after a decision has been added.
LEMMA AfterAppend ==
  ASSUME decisions \in Seq(Decision), NEW new \in Decision,
         decisions' = Append(decisions, new)
  PROVE  /\ decisions' \in Seq(Decision)
         /\ DOMAIN decisions = 1..Len(decisions) /\ Len(decisions) \in Nat
         /\ DOMAIN decisions' = 1..(Len(decisions) + 1)
         /\ decisions'[Len(decisions) + 1] = new
         /\ \A d \in DOMAIN decisions : decisions'[d] = decisions[d]
         /\ \A d \in DOMAIN decisions' \ DOMAIN decisions : d = Len(decisions) + 1
OBVIOUS

\* A decision by its number, after one has been answered.
LEMMA AfterAnswer ==
  ASSUME decisions \in Seq(Decision), NEW d \in DOMAIN decisions, NEW new \in Decision,
         decisions' = [decisions EXCEPT ![d] = new]
  PROVE  /\ decisions' \in Seq(Decision)
         /\ DOMAIN decisions' = DOMAIN decisions
         /\ DOMAIN decisions = 1..Len(decisions) /\ Len(decisions) \in Nat
         /\ decisions'[d] = new
         /\ \A e \in DOMAIN decisions : e # d => decisions'[e] = decisions[e]
<1>1. DOMAIN decisions = 1..Len(decisions) /\ Len(decisions) \in Nat
  OBVIOUS
<1>2. decisions' \in Seq(Decision)
  BY <1>1, ExceptSeq
<1>3. QED
  BY <1>1, <1>2

\* What is final is numbered like the decisions.
LEMMA FinalAreDecisions ==
  ASSUME RowsAreTyped, NEW kinds
  PROVE  /\ Final(kinds) \in SUBSET (1..Len(decisions))
         /\ DOMAIN decisions = 1..Len(decisions) /\ Len(decisions) \in Nat
BY DEF RowsAreTyped, Final

\* Somebody who may answer a proposal is neither its author nor the last
\* assessor, and the proposal asks for a second person.
LEMMA SecondIsSecond ==
  ASSUME LInv, NEW d \in DOMAIN decisions, NEW by, MayReviewSecond(d, by)
  PROVE  /\ by \in Coordinators \ {decisions[d].by, LastAssessor}
         /\ decisions[d].kind = "approved_with_conditions"
<1>1. by \in Coordinators \ {decisions[d].by, LastAssessor}
  BY DEF MayReviewSecond, EligibleSecond
<1>2. Pending(d) \/ \E p \in pages : p.kind = "decision" /\ p.decision = d
  BY DEF MayReviewSecond
<1>3. QED
  BY <1>1, <1>2 DEF Pending, LInv, PagesWereRead

\* The last assessor is a person who assesses, or nobody.
LEMMA AssessorIsPerson ==
  ASSUME RowsAreTyped
  PROVE  LastAssessor \in Coordinators \cup {None}
<1>1. CASE assessments = <<>>
  BY <1>1 DEF LastAssessor
<1>2. CASE assessments # <<>>
  BY <1>2 DEF LastAssessor, RowsAreTyped
<1>3. QED
  BY <1>1, <1>2

----------------------------------------------------------------------------
(* The rows before, and every operation but the answers to proposals. *)

\* The first state is typed and nothing has been decided or read.
LEMMA InitialRows ==
  ASSUME LifecycleInit
  PROVE  LInv
BY LifecycleAssumption DEF LifecycleInit, LInv, RowsAreTyped, UseCaseRow, PagesWereRead,
   BasesAdvance, ApprovalIsDecided, OneOpenSecondApproval, Statuses, Screening, Pending, Kinds,
   Approved

\* A new decision has the columns of a decision.
LEMMA NewDecisionIsTyped ==
  ASSUME RowsAreTyped, NEW kind \in Kinds, NEW by \in Coordinators
  PROVE  NewDecision(kind, by) \in Decision
<1>1. outcome.revision \in Nat /\ Len(assessments) \in Nat
  BY DEF RowsAreTyped
<1>2. QED
  BY <1>1 DEF NewDecision, Decision

\* Neither the pages nor the decisions are touched, but for new pages that
\* carry what the rows say now.
LEMMA LoadKeepsPages ==
  ASSUME LInv, NEW page, Load(page),
         page = UseCasePage \/ (\E d \in DOMAIN decisions : Pending(d) /\ page = DecisionPage(d))
           \/ page.kind \notin {"use_case", "decision"}
  PROVE  LInv'
<1>1. RowsAreTyped' /\ BasesAdvance' /\ ApprovalIsDecided' /\ OneOpenSecondApproval'
  BY DEF LInv, Load, RowsAreTyped, BasesAdvance, ApprovalIsDecided, OneOpenSecondApproval,
     Pending, Final
<1>2. PagesWereRead'
  <2>1. SUFFICES ASSUME NEW p \in pages \cup {page}
                 PROVE  /\ p.kind = "use_case" => p.row \in UseCaseRow
                        /\ p.kind = "decision" =>
                             /\ p.decision \in DOMAIN decisions
                             /\ decisions[p.decision].kind = "approved_with_conditions"
    BY DEF Load, PagesWereRead
  <2>2. CASE p \in pages
    BY <2>2 DEF LInv, PagesWereRead
  <2>3. CASE p = UseCasePage
    BY <2>3 DEF UseCasePage, LInv, RowsAreTyped
  <2>4. CASE \E d \in DOMAIN decisions : Pending(d) /\ p = DecisionPage(d)
    BY <2>4 DEF DecisionPage, Pending
  <2>5. CASE p = page /\ page.kind \notin {"use_case", "decision"}
    BY <2>5
  <2>6. QED
    BY <2>1, <2>2, <2>3, <2>4, <2>5
<1>3. QED
  BY <1>1, <1>2 DEF LInv

\* Steps that write the row or add an assessment keep what was decided.
LEMMA RowKeepsInvariant ==
  ASSUME LInv, RowsAreTyped', UNCHANGED <<decisions, outcome, pages>>,
         useCase'.decision \in Approved => Final({useCase'.decision}) # {}
  PROVE  LInv'
<1>1. PagesWereRead' /\ BasesAdvance' /\ OneOpenSecondApproval'
  BY DEF LInv, PagesWereRead, BasesAdvance, OneOpenSecondApproval, Pending
<1>2. ApprovalIsDecided'
  <2>1. Final({useCase.decision})' = Final({useCase'.decision})
    BY DEF Final
  <2>2. QED
    BY <2>1 DEF ApprovalIsDecided
<1>3. QED
  BY <1>1, <1>2 DEF LInv

\* A review writes the status alone.
LEMMA ReviewKeeps ==
  ASSUME LInv, NEW target \in Statuses \ {"idea"}, NEW handover, CreateReview(target, handover)
  PROVE  LInv'
<1>1. RowsAreTyped'
  BY DEF LInv, CreateReview, RowsAreTyped, UseCaseRow
<1>2. useCase'.decision = useCase.decision
  BY DEF LInv, CreateReview, RowsAreTyped, UseCaseRow
<1>3. QED
  BY <1>1, <1>2, RowKeepsInvariant DEF CreateReview, LInv, ApprovalIsDecided

\* An assessment leaves the row undecided.
LEMMA AssessKeeps ==
  ASSUME LInv, NEW by \in Coordinators, NEW row \in Rows, Assess(by, row)
  PROVE  LInv'
<1>1. row \in UseCaseRow
  BY RowsAreRows DEF LInv
<1>2. Len(assessments) \in Nat /\ Len(assessments') = Len(assessments) + 1
        /\ assessments' \in Seq(Coordinators \cup {None})
  BY DEF Assess, LInv, RowsAreTyped
<1>3. useCase' \in UseCaseRow /\ useCase'.decision = "ready"
  BY <1>1 DEF Assess, UseCaseRow
<1>4. RowsAreTyped'
  BY <1>2, <1>3 DEF Assess, LInv, RowsAreTyped
<1>5. QED
  BY <1>3, <1>4, RowKeepsInvariant DEF Assess, Approved

\* An edit that turns the row positive finds the approval it stands on.
LEMMA EditKeeps ==
  ASSUME LInv, NEW row \in Rows, NEW owner \in Owners, NEW technical \in TechnicalOwners,
         Edit(row, owner, technical)
  PROVE  LInv'
<1>1. row \in UseCaseRow
  BY RowsAreRows DEF LInv
<1>2. useCase' \in UseCaseRow /\ useCase'.decision = row.decision
  BY <1>1 DEF Edit, UseCaseRow
<1>3. RowsAreTyped'
  BY <1>2 DEF Edit, LInv, RowsAreTyped
<1>4. row.decision \in Approved => Final({row.decision}) # {}
  BY DEF Edit, SaveAllowed, LInv, ApprovalIsDecided
<1>5. QED
  BY <1>2, <1>3, <1>4, RowKeepsInvariant DEF Edit

\* Screenings, reviews of them and drafts do not touch what was decided.
LEMMA GovernanceKeeps ==
  ASSUME LInv, Screen \/ GovernanceReview \/ AdoptDraft \/ AnswerUnknowns
  PROVE  LInv'
<1>1. UNCHANGED <<useCase, reviewed, decisions, outcome, pages>>
  BY DEF Screen, GovernanceReview, AdoptDraft, AnswerUnknowns
<1>2. screening' \in Screening
  BY LifecycleAssumption DEF LInv, RowsAreTyped, Screen, GovernanceReview, AdoptDraft,
     AnswerUnknowns, Materialized, Screening
<1>3. /\ assessments' \in Seq(Coordinators \cup {None})
      /\ Len(assessments) \in Nat /\ Len(assessments') \in Nat
      /\ Len(assessments) <= Len(assessments')
  <2>1. assessments \in Seq(Coordinators \cup {None})
    BY DEF LInv, RowsAreTyped
  <2>2. assessments' = assessments \/ assessments' = Append(assessments, None)
    BY DEF Screen, GovernanceReview, AdoptDraft, AnswerUnknowns
  <2>3. QED
    BY <2>1, <2>2
<1>4. RowsAreTyped'
  BY <1>1, <1>2, <1>3 DEF LInv, RowsAreTyped
<1>5. QED
  BY <1>1, <1>4, RowKeepsInvariant DEF LInv, ApprovalIsDecided

\* The outcome only moves on.
LEMMA OutcomeKeeps ==
  ASSUME LInv, ReviseOutcome \/ ConfirmOutcome
  PROVE  LInv'
<1>1. UNCHANGED <<useCase, reviewed, assessments, decisions, screening, pages>>
  BY DEF ReviseOutcome, ConfirmOutcome
<1>2. /\ outcome' \in [revision : 1..MaxRevisions, confirmed : BOOLEAN]
      /\ outcome.revision <= outcome'.revision
      /\ outcome.revision \in Int /\ outcome'.revision \in Int
  <2>1. /\ outcome \in [revision : 1..MaxRevisions, confirmed : BOOLEAN]
        /\ MaxRevisions \in Nat
    BY LifecycleAssumption DEF LInv, RowsAreTyped
  <2>2. CASE ReviseOutcome
    BY <2>1, <2>2 DEF ReviseOutcome
  <2>3. CASE ConfirmOutcome
    <3>1. /\ outcome' \in [revision : 1..MaxRevisions, confirmed : BOOLEAN]
          /\ outcome'.revision = outcome.revision
      BY <2>1, <2>3 DEF ConfirmOutcome
    <3>2. outcome.revision \in Int /\ outcome.revision <= outcome.revision
      BY <2>1
    <3>3. QED
      BY <3>1, <3>2
  <2>4. QED
    BY <2>2, <2>3
<1>3. RowsAreTyped'
  BY <1>1, <1>2 DEF LInv, RowsAreTyped
<1>4. BasesAdvance'
  <2>1. \A b \in 1..outcome.revision : b \in 1..outcome'.revision
    BY <1>2
  <2>2. QED
    BY <1>1, <2>1 DEF LInv, BasesAdvance
<1>5. PagesWereRead' /\ ApprovalIsDecided' /\ OneOpenSecondApproval'
  BY <1>1 DEF LInv, PagesWereRead, ApprovalIsDecided, OneOpenSecondApproval, Pending, Final
<1>6. QED
  BY <1>3, <1>4, <1>5 DEF LInv

----------------------------------------------------------------------------
(* Decisions, and the answers to those that ask for a second person. *)

\* A decision joins the others; a proposal only when nobody waits.
LEMMA SubmitKeeps ==
  ASSUME LInv, NEW kind \in Verdicts, NEW by \in Coordinators,
         Submit(kind, by)
  PROVE  LInv'
<1> DEFINE new == NewDecision(kind, by)
           last == Len(decisions) + 1
<1>1. kind \in Kinds /\ decisions \in Seq(Decision) /\ new \in Decision
  BY LifecycleAssumption, NewDecisionIsTyped DEF LInv, RowsAreTyped
<1>2. decisions' = Append(decisions, new) /\ UNCHANGED <<reviewed, assessments, screening, outcome, pages>>
  BY DEF Submit
<1>3. /\ new.kind = kind /\ new.assessment = Len(assessments)
      /\ kind # "approved_with_conditions" => new.final
      /\ kind \in Approved => new.basis = outcome.revision
  BY DEF NewDecision
<1> HIDE DEF new
<1>4. /\ decisions' \in Seq(Decision)
      /\ DOMAIN decisions = 1..Len(decisions) /\ Len(decisions) \in Nat
      /\ DOMAIN decisions' = 1..last
      /\ decisions'[last] = new
      /\ \A d \in DOMAIN decisions : decisions'[d] = decisions[d]
      /\ \A d \in DOMAIN decisions' \ DOMAIN decisions : d = last
  BY <1>1, <1>2, AfterAppend
<1>5. useCase' \in UseCaseRow
      /\ useCase'.decision = IF kind = "approved_with_conditions" THEN useCase.decision ELSE kind
  BY <1>1 DEF Submit, LInv, RowsAreTyped, UseCaseRow
<1>6. RowsAreTyped'
  <2>1. Len(assessments) \in 1..Len(assessments)
    BY DEF Submit, LInv, RowsAreTyped
  <2>2. \A d \in DOMAIN decisions' : decisions'[d].assessment \in 1..Len(assessments)
    BY <1>3, <1>4, <2>1 DEF LInv, RowsAreTyped
  <2>3. QED
    BY <1>2, <1>4, <1>5, <2>2 DEF LInv, RowsAreTyped
<1>7. PagesWereRead'
  BY <1>2, <1>4 DEF LInv, PagesWereRead
<1>8. BasesAdvance'
  <2>1. outcome.revision \in 1..outcome.revision /\ \A b \in 1..outcome.revision : b <= outcome.revision
    BY DEF LInv, RowsAreTyped
  <2>2. SUFFICES ASSUME NEW d \in DOMAIN decisions', decisions'[d].kind \in Approved
                 PROVE  /\ decisions'[d].basis \in 1..outcome.revision
                        /\ \A e \in DOMAIN decisions' :
                             (e <= d /\ decisions'[e].kind \in Approved) =>
                               decisions'[e].basis <= decisions'[d].basis
    BY <1>2 DEF BasesAdvance
  <2>3. CASE d \in DOMAIN decisions
    <3>1. \A e \in DOMAIN decisions' : e <= d => e \in DOMAIN decisions
      BY <1>4, <2>3
    <3>2. QED
      BY <1>4, <2>2, <2>3, <3>1 DEF LInv, BasesAdvance
  <2>4. CASE d = last
    <3>1. decisions'[d].basis = outcome.revision
      BY <1>3, <1>4, <2>2, <2>4
    <3>2. \A e \in DOMAIN decisions' : e \in DOMAIN decisions \/ e = last
      BY <1>4
    <3>3. QED
      BY <1>4, <2>1, <2>4, <3>1, <3>2 DEF LInv, BasesAdvance
  <2>5. QED
    BY <1>4, <2>3, <2>4
<1>9. ApprovalIsDecided'
  <2>1. CASE kind = "approved_with_conditions"
    BY <1>4, <1>5, <2>1 DEF LInv, ApprovalIsDecided, Final
  <2>2. CASE kind # "approved_with_conditions"
    <3>1. last \in DOMAIN decisions' /\ decisions'[last].final /\ decisions'[last].kind = useCase'.decision
      BY <1>3, <1>4, <1>5, <2>2
    <3>2. QED
      BY <3>1 DEF ApprovalIsDecided, Final
  <2>3. QED
    BY <2>1, <2>2
<1>10. OneOpenSecondApproval'
  <2>1. ASSUME NEW d \in DOMAIN decisions', Pending(d)'
        PROVE  (d \in DOMAIN decisions /\ Pending(d))
                 \/ (d = last /\ \A e \in DOMAIN decisions : ~Pending(e))
    <3>1. CASE d \in DOMAIN decisions
      BY <1>4, <2>1, <3>1 DEF Pending
    <3>2. CASE d = last
      <4>1. kind = "approved_with_conditions"
        BY <1>3, <1>4, <2>1, <3>2 DEF Pending
      <4>2. QED
        BY <3>2, <4>1 DEF Submit, NobodyWaitsFor, NobodyWaits
    <3>3. QED
      BY <1>4, <3>1, <3>2
  <2>2. QED
    BY <2>1 DEF LInv, OneOpenSecondApproval
<1>11. QED
  BY <1>6, <1>7, <1>8, <1>9, <1>10 DEF LInv

\* An answered decision keeps what it says, is final if it was, and does not
\* wait any more.
LEMMA AnswerKeeps ==
  ASSUME LInv, NEW d \in DOMAIN decisions, NEW new \in Decision,
         decisions' = [decisions EXCEPT ![d] = new],
         new.kind = decisions[d].kind, new.basis = decisions[d].basis,
         new.assessment = decisions[d].assessment, decisions[d].final => new.final,
         new.final \/ new.returned,
         UNCHANGED <<reviewed, assessments, screening, outcome, pages>>,
         useCase' \in UseCaseRow,
         useCase'.decision = useCase.decision \/ (new.final /\ useCase'.decision = new.kind)
  PROVE  LInv'
<1>1. /\ decisions' \in Seq(Decision)
      /\ DOMAIN decisions' = DOMAIN decisions
      /\ decisions'[d] = new
      /\ \A e \in DOMAIN decisions : e # d => decisions'[e] = decisions[e]
  BY AfterAnswer DEF LInv, RowsAreTyped
<1>2. \A e \in DOMAIN decisions :
        /\ decisions'[e].kind = decisions[e].kind /\ decisions'[e].basis = decisions[e].basis
        /\ decisions'[e].assessment = decisions[e].assessment
        /\ decisions[e].final => decisions'[e].final
  BY <1>1
<1>3. RowsAreTyped'
  BY <1>1, <1>2 DEF LInv, RowsAreTyped
<1>4. PagesWereRead'
  BY <1>1, <1>2 DEF LInv, PagesWereRead
<1>5. BasesAdvance'
  BY <1>1, <1>2 DEF LInv, BasesAdvance
<1>6. ApprovalIsDecided'
  BY <1>1, <1>2 DEF LInv, ApprovalIsDecided, Final
<1>7. OneOpenSecondApproval'
  <2>1. \A e \in DOMAIN decisions : Pending(e)' => Pending(e)
    BY <1>1 DEF Pending
  <2>2. QED
    BY <1>1, <2>1 DEF LInv, OneOpenSecondApproval
<1>8. QED
  BY <1>3, <1>4, <1>5, <1>6, <1>7 DEF LInv

\* What a confirmation writes.
LEMMA ConfirmKeeps ==
  ASSUME LInv, NEW d \in DOMAIN decisions, NEW by \in Coordinators, Confirm(d, by)
  PROVE  LInv'
<1> DEFINE new == [decisions[d] EXCEPT !.second = by, !.final = TRUE]
<1>1. decisions \in Seq(Decision) /\ decisions[d] \in Decision
  BY DEF LInv, RowsAreTyped
<1>2. decisions' = [decisions EXCEPT ![d] = new]
  BY <1>1 DEF Confirm
<1>3. /\ new \in Decision /\ new.kind = decisions[d].kind /\ new.basis = decisions[d].basis
      /\ new.assessment = decisions[d].assessment /\ new.final
  BY <1>1 DEF Decision
<1>4. useCase' \in UseCaseRow /\ useCase'.decision = new.kind
  BY <1>1, <1>3 DEF Confirm, LInv, RowsAreTyped, UseCaseRow, Decision
<1> HIDE DEF new
<1>5. QED
  BY <1>2, <1>3, <1>4, AnswerKeeps DEF Confirm

\* What a return writes.
LEMMA ReturnKeeps ==
  ASSUME LInv, NEW d \in DOMAIN decisions, NEW by \in Coordinators, Return(d, by)
  PROVE  LInv'
<1> DEFINE new == [decisions[d] EXCEPT !.returned = TRUE]
<1>1. decisions \in Seq(Decision) /\ decisions[d] \in Decision
  BY DEF LInv, RowsAreTyped
<1>2. decisions' = [decisions EXCEPT ![d] = new]
  BY <1>1 DEF Return
<1>3. /\ new \in Decision /\ new.kind = decisions[d].kind /\ new.basis = decisions[d].basis
      /\ new.assessment = decisions[d].assessment /\ new.final = decisions[d].final /\ new.returned
  BY <1>1 DEF Decision
<1> HIDE DEF new
<1>4. QED
  BY <1>2, <1>3, AnswerKeeps DEF Return, LInv, RowsAreTyped

\* Every step keeps the invariant.
LEMMA LifecycleKeepsInvariant ==
  ASSUME LInv, LifecycleStep
  PROVE  LInv'
<1>1. ASSUME NEW handover \in BOOLEAN, LifecycleNext(handover) PROVE LInv'
  <2>1. CASE OpenUseCase
    BY <2>1, LoadKeepsPages DEF OpenUseCase
  <2>2. CASE OpenSecondReview
    BY <2>2, LoadKeepsPages DEF OpenSecondReview
  <2>3. CASE AskForDraft
    BY <2>3, LoadKeepsPages DEF AskForDraft, DraftPage
  <2>4. CASE \E target \in Statuses \ {"idea"} : CreateReview(target, handover)
    BY <2>4, ReviewKeeps
  <2>5. CASE \E by \in Coordinators, row \in Rows : Assess(by, row)
    BY <2>5, AssessKeeps
  <2>6. CASE \E kind \in Verdicts, by \in Coordinators : Submit(kind, by)
    BY <2>6, SubmitKeeps
  <2>7. CASE \E d \in DOMAIN decisions, by \in Coordinators : Confirm(d, by) \/ Return(d, by)
    BY <2>7, ConfirmKeeps, ReturnKeeps
  <2>8. CASE \E row \in Rows, owner \in Owners, technical \in TechnicalOwners :
               Edit(row, owner, technical)
    BY <2>8, EditKeeps
  <2>9. CASE Screen \/ GovernanceReview \/ AdoptDraft \/ AnswerUnknowns
    BY <2>9, GovernanceKeeps
  <2>10. CASE ReviseOutcome \/ ConfirmOutcome
    BY <2>10, OutcomeKeeps
  <2>11. QED
    BY <1>1, <2>1, <2>2, <2>3, <2>4, <2>5, <2>6, <2>7, <2>8, <2>9, <2>10 DEF LifecycleNext
<1>2. ASSUME NEW page, page.kind \notin {"use_case", "decision"}, Load(page) PROVE LInv'
  BY <1>2, LoadKeepsPages
<1>3. CASE UNCHANGED lifecycleVars
  BY <1>3 DEF lifecycleVars, LInv, RowsAreTyped, PagesWereRead, BasesAdvance, ApprovalIsDecided,
     OneOpenSecondApproval, Pending, Final
<1>4. QED
  BY <1>1, <1>2, <1>3 DEF LifecycleStep

----------------------------------------------------------------------------
(* The theorems. *)

\* The typed rows are the type invariant of the model.
LEMMA RowsAreTypeOK ==
  ASSUME LInv
  PROVE  LifecycleTypeOK
<1>1. \A d \in DOMAIN decisions : decisions[d] \in Decision
  BY DEF LInv, RowsAreTyped
<1>2. QED
  BY <1>1 DEF LInv, RowsAreTyped, LifecycleTypeOK, UseCaseRow, Decision

\* A step of the specification is a step the lemmas speak about.
LEMMA SpecifiedStep ==
  ASSUME [\E handover \in BOOLEAN : LifecycleNext(handover)]_lifecycleVars
  PROVE  LifecycleStep
BY DEF LifecycleStep

\* The inductive invariant of the specification.
LEMMA LifecycleInvariant == LifecycleSpec => []LInv
<1>1. LifecycleInit => LInv
  BY InitialRows
<1>2. LInv /\ [\E handover \in BOOLEAN : LifecycleNext(handover)]_lifecycleVars => LInv'
  BY SpecifiedStep, LifecycleKeepsInvariant
<1>3. QED
  BY <1>1, <1>2, PTL DEF LifecycleSpec

\* The rows and decisions keep their types, whatever old copy of the row an
\* edit or an assessment writes back (UseCase.save, create_decision_assessment).
THEOREM LifecycleTypes == LifecycleSpec => []LifecycleTypeOK
<1>1. LInv => LifecycleTypeOK
  BY RowsAreTypeOK
<1>2. QED
  BY <1>1, LifecycleInvariant, PTL

\* A use case counts as approved only if an approval of that kind has been
\* finalised (UseCase.save).
THEOREM ApprovalIsAlwaysDecided == LifecycleSpec => []ApprovalIsDecided
<1>1. LInv => ApprovalIsDecided
  BY DEF LInv
<1>2. QED
  BY <1>1, LifecycleInvariant, PTL

\* At most one approval waits for a second person, for any number of
\* coordinators and proposals (submit_approval_decision).
THEOREM OneSecondApprovalIsOpen == LifecycleSpec => []OneOpenSecondApproval
<1>1. LInv => OneOpenSecondApproval
  BY DEF LInv
<1>2. QED
  BY <1>1, LifecycleInvariant, PTL

\* A decision that is as it was is as it was.
LEMMA SameDecisions ==
  ASSUME UNCHANGED decisions
  PROVE  \A d \in DOMAIN decisions' : d \in DOMAIN decisions /\ decisions'[d] = decisions[d]
OBVIOUS

\* Who decided, who confirmed and who assessed are different people when an
\* approval becomes final.
Separate(d) ==
  /\ decisions'[d].assessment = Len(assessments)
  /\ decisions'[d].basis = outcome.revision /\ outcome.confirmed
  /\ decisions'[d].by \notin {LastAssessor, useCase.owner}
  /\ decisions'[d].kind = "approved_with_conditions" =>
       decisions'[d].second \notin {None, LastAssessor, decisions'[d].by}

BecomesFinal(d) ==
  /\ decisions'[d].final /\ decisions'[d].kind \in Approved
  /\ d \notin DOMAIN decisions \/ ~decisions[d].final

\* Only a submission and a confirmation make a decision final.
LEMMA StepSeparates ==
  ASSUME LInv, LifecycleStep, NEW d \in DOMAIN decisions', BecomesFinal(d)
  PROVE  Separate(d)
<1>1. ASSUME NEW kind \in Verdicts, NEW by \in Coordinators, Submit(kind, by) PROVE Separate(d)
  <2>1. kind \in Kinds /\ decisions \in Seq(Decision) /\ NewDecision(kind, by) \in Decision
    BY LifecycleAssumption, NewDecisionIsTyped DEF LInv, RowsAreTyped
  <2>2. /\ \A e \in DOMAIN decisions : decisions'[e] = decisions[e]
        /\ \A e \in DOMAIN decisions' \ DOMAIN decisions : e = Len(decisions) + 1
        /\ decisions'[Len(decisions) + 1] = NewDecision(kind, by)
    BY <1>1, <2>1, AfterAppend DEF Submit
  <2>3. decisions'[d] = NewDecision(kind, by)
    BY <2>2 DEF BecomesFinal
  <2>4. kind \in Approved /\ kind # "approved_with_conditions"
    <3>1. NewDecision(kind, by).kind = kind /\ NewDecision(kind, by).final = (kind # "approved_with_conditions")
      BY DEF NewDecision
    <3>2. NewDecision(kind, by).final /\ kind \in Approved
      BY <2>3, <3>1 DEF BecomesFinal
    <3>3. QED
      BY <3>1, <3>2
  <2>5. ApprovalCheck(by)
    BY <1>1, <2>4 DEF Submit
  <2>6. QED
    BY <2>3, <2>4, <2>5 DEF Separate, ApprovalCheck, NewDecision
<1>2. ASSUME NEW e \in DOMAIN decisions, NEW by \in Coordinators, Confirm(e, by) PROVE Separate(d)
  <2>1. decisions \in Seq(Decision) /\ decisions[e] \in Decision
    BY DEF LInv, RowsAreTyped
  <2>2. DOMAIN decisions' = DOMAIN decisions
    BY <1>2 DEF Confirm
  <2>3. d = e
    BY <1>2, <2>2 DEF Confirm, BecomesFinal
  <2>4. /\ decisions'[e].by = decisions[e].by /\ decisions'[e].second = by
        /\ decisions'[e].basis = decisions[e].basis /\ decisions'[e].kind = decisions[e].kind
        /\ decisions'[e].assessment = decisions[e].assessment
    BY <1>2, <2>1 DEF Confirm, Decision
  <2>5. by \in Coordinators \ {decisions[e].by, LastAssessor} /\ by # None
    BY <1>2, SecondIsSecond, LifecycleAssumption DEF Confirm
  <2>6. QED
    BY <1>2, <2>3, <2>4, <2>5 DEF Confirm, StillProposed, Stale, ApprovalCheck, Separate
<1>3. ASSUME NEW e \in DOMAIN decisions, NEW by \in Coordinators, Return(e, by) PROVE FALSE
  <2>1. decisions \in Seq(Decision) /\ decisions[e] \in Decision
    BY DEF LInv, RowsAreTyped
  <2>2. DOMAIN decisions' = DOMAIN decisions
    BY <1>3 DEF Return
  <2>3. decisions'[d].final = decisions[d].final
    BY <1>3, <2>1, <2>2 DEF Return, Decision
  <2>4. QED
    BY <2>2, <2>3 DEF BecomesFinal
<1>4. ~UNCHANGED decisions
  BY SameDecisions DEF BecomesFinal
<1>5. ASSUME NEW handover \in BOOLEAN, LifecycleNext(handover) PROVE Separate(d)
  <2>1. \/ \E kind \in Verdicts, by \in Coordinators : Submit(kind, by)
        \/ \E e \in DOMAIN decisions, by \in Coordinators : Confirm(e, by) \/ Return(e, by)
    BY <1>4, <1>5 DEF LifecycleNext, OpenUseCase, OpenSecondReview, AskForDraft, Load, CreateReview,
       Assess, Edit, Screen, GovernanceReview, AdoptDraft, AnswerUnknowns, ReviseOutcome,
       ConfirmOutcome
  <2>2. QED
    BY <1>1, <1>2, <1>3, <2>1
<1>6. ASSUME NEW page, Load(page) PROVE FALSE
  BY <1>4, <1>6 DEF Load
<1>7. QED
  BY <1>4, <1>5, <1>6 DEF LifecycleStep, lifecycleVars

\* Whoever proposed, confirmed and assessed stay different people, however
\* proposals, answers and new assessments interleave (approval_check,
\* confirm_conditional_decision).
THEOREM DutiesAreAlwaysSeparate == LifecycleSpec => DutiesAreSeparate
<1>1. LInv /\ LifecycleStep =>
        \A d \in DOMAIN decisions' : BecomesFinal(d) => Separate(d)
  BY StepSeparates
<1>2. LInv /\ [\E handover \in BOOLEAN : LifecycleNext(handover)]_lifecycleVars =>
        [\A d \in DOMAIN decisions' :
          (decisions'[d].final /\ decisions'[d].kind \in Approved
             /\ (d \notin DOMAIN decisions \/ ~decisions[d].final)) =>
            /\ decisions'[d].assessment = Len(assessments)
            /\ decisions'[d].basis = outcome.revision /\ outcome.confirmed
            /\ decisions'[d].by \notin {LastAssessor, useCase.owner}
            /\ decisions'[d].kind = "approved_with_conditions" =>
                 decisions'[d].second \notin {None, LastAssessor, decisions'[d].by}]_lifecycleVars
  BY <1>1, SpecifiedStep DEF BecomesFinal, Separate
<1>3. QED
  BY <1>2, LifecycleInvariant, PTL DEF LifecycleSpec, DutiesAreSeparate

TurnsPositive == useCase'.decision \in Approved /\ useCase'.decision # useCase.decision

\* The final decisions of a kind, after the step.
FinalNext(kind) == {d \in DOMAIN decisions' : decisions'[d].final /\ decisions'[d].kind = kind}

StandsOnOutcome ==
  /\ FinalNext(useCase'.decision) # {}
  /\ outcome.confirmed
  /\ decisions'[Latest(FinalNext(useCase'.decision))].basis = outcome.revision

\* A submission that is final at once rests on the outcome it checked.
LEMMA SubmissionStands ==
  ASSUME LInv, NEW kind \in Verdicts, NEW by \in Coordinators, Submit(kind, by), TurnsPositive
  PROVE  StandsOnOutcome
<1> DEFINE new == NewDecision(kind, by)
           last == Len(decisions) + 1
<1>1. kind \in Kinds /\ decisions \in Seq(Decision) /\ new \in Decision
  BY LifecycleAssumption, NewDecisionIsTyped DEF LInv, RowsAreTyped
<1>2. /\ DOMAIN decisions' = 1..last /\ last \in Nat /\ decisions'[last] = new /\ last \in 1..last
  BY <1>1, AfterAppend DEF Submit
<1>3. kind # "approved_with_conditions" /\ useCase'.decision = kind /\ kind \in Approved
  BY <1>1 DEF Submit, TurnsPositive, LInv, RowsAreTyped, UseCaseRow
<1>4. new.final /\ new.kind = kind /\ new.basis = outcome.revision
  BY <1>3 DEF NewDecision
<1> HIDE DEF new, last
<1>5. FinalNext(kind) \in SUBSET (1..last) /\ last \in FinalNext(kind)
        /\ \A e \in FinalNext(kind) : e <= last
  BY <1>2, <1>4 DEF FinalNext
<1>6. Latest(FinalNext(kind)) = last
  BY <1>2, <1>5, LatestIs
<1>7. outcome.confirmed
  BY <1>3 DEF Submit, ApprovalCheck
<1>8. QED
  BY <1>2, <1>3, <1>4, <1>5, <1>6, <1>7 DEF StandsOnOutcome

\* A confirmed proposal need not be the latest final one of its kind; but the
\* latest rests on no older an outcome, hence on the one of this moment.
LEMMA ConfirmationStands ==
  ASSUME LInv, NEW d \in DOMAIN decisions, NEW by \in Coordinators, Confirm(d, by), TurnsPositive
  PROVE  StandsOnOutcome
<1> DEFINE kind == decisions[d].kind
           last == Latest(FinalNext(kind))
<1>1. decisions \in Seq(Decision) /\ decisions[d] \in Decision /\ useCase \in UseCaseRow
        /\ DOMAIN decisions = 1..Len(decisions) /\ Len(decisions) \in Nat
        /\ outcome.revision \in Nat
  BY DEF LInv, RowsAreTyped
<1>2. /\ DOMAIN decisions' = DOMAIN decisions
      /\ decisions'[d].final
      /\ \A e \in DOMAIN decisions :
           decisions'[e].kind = decisions[e].kind /\ decisions'[e].basis = decisions[e].basis
  <2>1. DOMAIN decisions' = DOMAIN decisions
    BY DEF Confirm
  <2>2. \A e \in DOMAIN decisions : e # d => decisions'[e] = decisions[e]
    BY <1>1 DEF Confirm
  <2>3. decisions'[d].final /\ decisions'[d].kind = decisions[d].kind
          /\ decisions'[d].basis = decisions[d].basis
    BY <1>1 DEF Confirm, Decision
  <2>4. QED
    BY <2>1, <2>2, <2>3
<1>3. useCase'.decision = kind /\ kind \in Approved
  BY <1>1 DEF Confirm, TurnsPositive, UseCaseRow
<1>4. outcome.confirmed /\ decisions[d].basis = outcome.revision
  BY DEF Confirm, StillProposed, Stale
<1>5. FinalNext(kind) \in SUBSET (1..Len(decisions)) /\ d \in FinalNext(kind)
  BY <1>1, <1>2 DEF FinalNext
<1>6. last \in FinalNext(kind) /\ d <= last
  BY <1>1, <1>5, LatestExists
<1>7. last \in DOMAIN decisions /\ decisions[last].kind \in Approved
  BY <1>2, <1>3, <1>6 DEF FinalNext
<1> HIDE DEF last, kind
<1>8. decisions[last].basis \in 1..outcome.revision /\ decisions[d].basis <= decisions[last].basis
  BY <1>3, <1>6, <1>7 DEF LInv, BasesAdvance, kind
<1>9. decisions'[last].basis = outcome.revision
  BY <1>1, <1>2, <1>4, <1>7, <1>8
<1>10. QED
  BY <1>3, <1>4, <1>5, <1>9 DEF StandsOnOutcome, last

\* An edit that revives an approval has checked what the latest rests on.
LEMMA EditStands ==
  ASSUME LInv, NEW row \in Rows, NEW owner \in Owners, NEW technical \in TechnicalOwners,
         Edit(row, owner, technical), TurnsPositive
  PROVE  StandsOnOutcome
<1>1. row \in UseCaseRow
  BY RowsAreRows DEF LInv
<1>2. useCase'.decision = row.decision
  BY <1>1 DEF Edit, UseCaseRow
<1>3. Final({row.decision}) = FinalNext(row.decision)
  BY DEF Edit, Final, FinalNext
<1>4. QED
  BY <1>2, <1>3 DEF Edit, SaveAllowed, TurnsPositive, Stale, StandsOnOutcome

\* No other step turns the decision of the row positive.
LEMMA StepStands ==
  ASSUME LInv, LifecycleStep, TurnsPositive
  PROVE  StandsOnOutcome
<1>1. ~UNCHANGED useCase
  BY DEF TurnsPositive
<1>2. useCase \in UseCaseRow /\ Rows \subseteq UseCaseRow
  BY RowsAreRows DEF LInv, RowsAreTyped
<1>3. ASSUME NEW target \in Statuses, NEW handover, CreateReview(target, handover) PROVE FALSE
  BY <1>2, <1>3 DEF CreateReview, TurnsPositive, UseCaseRow
<1>4. ASSUME NEW by \in Coordinators, NEW row \in Rows, Assess(by, row) PROVE FALSE
  <2>1. useCase'.decision = "ready"
    BY <1>2, <1>4 DEF Assess, UseCaseRow
  <2>2. QED
    BY <2>1 DEF TurnsPositive, Approved
<1>5. ASSUME NEW handover \in BOOLEAN, LifecycleNext(handover) PROVE StandsOnOutcome
  <2>1. \/ \E target \in Statuses \ {"idea"} : CreateReview(target, handover)
        \/ \E by \in Coordinators, row \in Rows : Assess(by, row)
        \/ \E kind \in Verdicts, by \in Coordinators : Submit(kind, by)
        \/ \E d \in DOMAIN decisions, by \in Coordinators : Confirm(d, by)
        \/ \E row \in Rows, owner \in Owners, technical \in TechnicalOwners :
             Edit(row, owner, technical)
    BY <1>1, <1>5 DEF LifecycleNext, OpenUseCase, OpenSecondReview, AskForDraft, Load, Return,
       Screen, GovernanceReview, AdoptDraft, AnswerUnknowns, ReviseOutcome, ConfirmOutcome
  <2>2. QED
    BY <1>3, <1>4, <2>1, SubmissionStands, ConfirmationStands, EditStands
<1>6. ASSUME NEW page, Load(page) PROVE FALSE
  BY <1>1, <1>6 DEF Load
<1>7. QED
  BY <1>1, <1>5, <1>6 DEF LifecycleStep, lifecycleVars

\* The decision of the row turns positive only on a final approval whose
\* basis is the confirmed outcome of that moment: neither an edit from an old
\* page nor the late confirmation of an old proposal can do otherwise
\* (UseCase.save, confirm_conditional_decision, outcome_contract.snapshot_is_stale).
THEOREM ApprovalsAlwaysStand == LifecycleSpec => ApprovalsStandOnOutcome
<1>1. LInv /\ [\E handover \in BOOLEAN : LifecycleNext(handover)]_lifecycleVars =>
        [(useCase'.decision \in Approved /\ useCase'.decision # useCase.decision) =>
          LET final == {d \in DOMAIN decisions' :
                          decisions'[d].final /\ decisions'[d].kind = useCase'.decision}
          IN /\ final # {}
             /\ outcome.confirmed
             /\ decisions'[Latest(final)].basis = outcome.revision]_lifecycleVars
  BY StepStands, SpecifiedStep DEF TurnsPositive, StandsOnOutcome, FinalNext
<1>2. QED
  BY <1>1, LifecycleInvariant, PTL DEF LifecycleSpec, ApprovalsStandOnOutcome
============================================================================
