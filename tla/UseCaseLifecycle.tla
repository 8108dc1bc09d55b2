--------------------------- MODULE UseCaseLifecycle ---------------------------
(***************************************************************************)
(* The way of one use case from idea to operation: lifecycle reviewed,     *)
(* assessments, approvals with a second pair of eyes, the governance       *)
(* screening and the outcome hypothesis an approval rests on.              *)
(*                                                                         *)
(* A service is one transaction and one step.  What a request loaded       *)
(* before its service ran is a page: any number of requests may work from  *)
(* the same page, at any later time.  An operation says which of its data  *)
(* it takes from the page and which it reads again.                        *)
(***************************************************************************)
EXTENDS Integers, Sequences, FiniteSets

CONSTANTS
  Coordinators,     \* users who may assess, decide, hand over and administer
  Owners,           \* possible business owners; a coordinator may be one
  TechnicalOwners,  \* possible technical owners of the use case
  None,
  Verdicts,         \* the decisions that are taken
  Results,          \* the results formal governance reviews have
  Loads,            \* the kinds of pages requests keep while the rows move on
  MaxAssessments, MaxDecisions, MaxRevisions, MaxPages   \* bounds of a behaviour

Statuses  == {"idea", "review", "pilot", "operation", "ended"}
Approved  == {"approved", "approved_with_conditions"}
Kinds     == Approved \cup {"deferred", "not_pursued"}
Screening == {"none", "not_required", "open", "passed", "failed"}

ASSUME LifecycleAssumption ==
  /\ Owners # {} /\ TechnicalOwners # {} /\ None \notin Coordinators \cup Owners
  /\ Verdicts \subseteq Kinds /\ Results \subseteq {"passed", "failed"}
  /\ {MaxAssessments, MaxDecisions, MaxPages} \subseteq Nat /\ MaxRevisions \in Nat \ {0}

VARIABLES
  useCase,      \* the row: status, decision, business owner, technical owner
  reviewed,     \* the status the last lifecycle Review led to
  assessments,  \* assessments[v]: who made version v; None for the system
  decisions,    \* approval decisions in the order of their creation
  screening,    \* formal review asked for by the latest governance screening
  outcome,      \* the initiative: its outcome revision, and is it confirmed
  pages         \* what requests have loaded

lifecycleVars == <<useCase, reviewed, assessments, decisions, screening, outcome, pages>>

----------------------------------------------------------------------------
(* What the rows say. *)

LastAssessor == IF assessments = <<>> THEN None ELSE assessments[Len(assessments)]

\* snapshot_is_stale: the outcome moved on, or nobody stands by it any more.
Stale(d) == decisions[d].basis # outcome.revision \/ ~outcome.confirmed

Pending(d) ==
  /\ decisions[d].kind = "approved_with_conditions"
  /\ ~decisions[d].final /\ ~decisions[d].returned

Final(kinds) == {d \in DOMAIN decisions : decisions[d].final /\ decisions[d].kind \in kinds}
Latest(set)  == CHOOSE d \in set : \A other \in set : other <= d

\* approval_check of a positive decision by this person.
ApprovalCheck(by) ==
  /\ outcome.confirmed
  /\ assessments # <<>> /\ LastAssessor # by
  /\ useCase.owner # by
  /\ screening \notin {"none", "failed"}

\* can_review_conditional_decision, for an owner that was read at some time.
EligibleSecond(first, owner) == Coordinators \ {first, LastAssessor, owner}

SaveUnguarded(row) == TRUE

\* UseCase.save lets a row become approved only on a current decision.
SaveAllowed(row) ==
  (row.decision \in Approved /\ row.decision # useCase.decision) =>
     /\ Final({row.decision}) # {}
     /\ ~Stale(Latest(Final({row.decision})))

----------------------------------------------------------------------------
(* Pages: the use case, or a decision that waits for its second approval.  *)

UseCasePage     == [kind |-> "use_case", row |-> useCase]
DecisionPage(d) == [kind |-> "decision", decision |-> d, owner |-> useCase.owner]
DraftPage       == [kind |-> "draft"]

Load(page) ==
  /\ page.kind \in Loads
  /\ Cardinality(pages) < MaxPages
  /\ page \notin pages
  /\ pages' = pages \cup {page}
  /\ UNCHANGED <<useCase, reviewed, assessments, decisions, screening, outcome>>

\* The use case rows a request may work from.
Rows == {useCase} \cup {p.row : p \in {p \in pages : p.kind = "use_case"}}

OpenUseCase == Load(UseCasePage)
OpenSecondReview == \E d \in DOMAIN decisions : Pending(d) /\ Load(DecisionPage(d))
\* The provider is asked for a draft only while nothing has been decided.
AskForDraft == decisions = <<>> /\ Load(DraftPage)

----------------------------------------------------------------------------
(* Lifecycle commands: create_review locks the row and reads it again.     *)

Sources == [c \in Statuses \ {"idea"} |->
  CASE c = "review"    -> {"idea"}
    [] c = "pilot"     -> {"review"}
    [] c = "operation" -> {"pilot"}
    [] c = "ended"     -> {"pilot", "operation"}]

GovernanceDone == screening \in {"not_required", "passed"}

MayEnterUndelivered(target, handover) ==
  /\ useCase.status \in Sources[target]
  /\ target \in {"pilot", "operation"} => GovernanceDone
  /\ target = "pilot" => useCase.decision \in Approved

\* What the target asks for beyond its source status; handover tells if the
\* handover of the current package is recorded.
MayEnter(target, handover) ==
  /\ useCase.status \in Sources[target]
  /\ target = "pilot" =>
       useCase.decision \in Approved /\ handover /\ screening # "none" /\ GovernanceDone
  /\ target = "operation" => GovernanceDone /\ useCase.technical # None

CreateReview(target, handover) ==
  /\ MayEnter(target, handover)
  /\ useCase' = [useCase EXCEPT !.status = target]
  /\ reviewed' = target
  /\ UNCHANGED <<assessments, decisions, screening, outcome, pages>>

----------------------------------------------------------------------------
(* Assessments and decisions. *)

\* create_decision_assessment checks and then saves the whole loaded row.
Assess(by, row) ==
  /\ row.status = "review" /\ row.decision # "not_pursued"
  /\ Len(assessments) < MaxAssessments
  /\ assessments' = Append(assessments, by)
  /\ useCase' = [row EXCEPT !.decision = "ready"]
  /\ UNCHANGED <<reviewed, decisions, screening, outcome, pages>>

NewDecision(kind, by) ==
  [kind |-> kind, by |-> by, assessment |-> Len(assessments),
   basis |-> IF kind \in Approved THEN outcome.revision ELSE None,
   second |-> None, final |-> kind # "approved_with_conditions", returned |-> FALSE]

NobodyWaits == \A d \in DOMAIN decisions : ~Pending(d)

SomebodyMayWait(kind) == TRUE
NobodyWaitsFor(kind) == kind = "approved_with_conditions" => NobodyWaits

\* As if conditions took effect before the second person agreed.
SubmitAtOnce(kind, by) ==
  /\ Len(decisions) < MaxDecisions
  /\ assessments # <<>>
  /\ kind \in Approved => ApprovalCheck(by)
  /\ NobodyWaitsFor(kind)
  /\ decisions' = Append(decisions, NewDecision(kind, by))
  /\ useCase' = [useCase EXCEPT !.decision = kind]
  /\ UNCHANGED <<reviewed, assessments, screening, outcome, pages>>

\* submit_approval_decision: conditions need a second person, the rest is final.
Submit(kind, by) ==
  /\ Len(decisions) < MaxDecisions
  /\ assessments # <<>>
  /\ kind \in Approved => ApprovalCheck(by)
  /\ NobodyWaitsFor(kind)
  /\ kind = "approved_with_conditions" => EligibleSecond(by, useCase.owner) # {}
  /\ decisions' = Append(decisions, NewDecision(kind, by))
  /\ useCase' = IF kind = "approved_with_conditions" THEN useCase
                ELSE [useCase EXCEPT !.decision = kind]
  /\ UNCHANGED <<reviewed, assessments, screening, outcome, pages>>

\* Who may act on a pending decision, as the request saw decision and owner.
MayReviewSecond(d, by) ==
  \E owner \in (IF Pending(d) THEN {useCase.owner} ELSE {})
                 \cup {p.owner : p \in {p \in pages : p.kind = "decision" /\ p.decision = d}} :
    by \in EligibleSecond(decisions[d].by, owner)

StillProposedUnchecked(d) == ApprovalCheck(decisions[d].by)

\* The locked rows must still be those the proposal was made for.
StillProposed(d) ==
  /\ ~Stale(d)
  /\ decisions[d].assessment = Len(assessments)
  /\ ApprovalCheck(decisions[d].by)

Confirm(d, by) ==
  /\ MayReviewSecond(d, by)
  /\ StillProposed(d)
  /\ decisions' = [decisions EXCEPT ![d].second = by, ![d].final = TRUE]
  /\ useCase' = [useCase EXCEPT !.decision = decisions[d].kind]
  /\ UNCHANGED <<reviewed, assessments, screening, outcome, pages>>

\* return_conditional_decision neither locks nor reads anything again.
Return(d, by) ==
  /\ MayReviewSecond(d, by)
  /\ decisions' = [decisions EXCEPT ![d].returned = TRUE]
  /\ UNCHANGED <<useCase, reviewed, assessments, screening, outcome, pages>>

\* The edit form saves every column of the row its request loaded.
Edit(row, owner, technical) ==
  /\ SaveAllowed(row)
  /\ useCase' = [row EXCEPT !.owner = owner, !.technical = technical]
  /\ UNCHANGED <<reviewed, assessments, decisions, screening, outcome, pages>>

----------------------------------------------------------------------------
(* Governance and outcome. *)

\* A coordinator screens the use case anew; the formal review starts over.
Screen ==
  /\ screening' \in {"not_required", "open"}
  /\ UNCHANGED <<useCase, reviewed, assessments, decisions, outcome, pages>>

GovernanceReview ==
  /\ screening \in {"open", "passed", "failed"}
  /\ screening' \in Results
  /\ UNCHANGED <<useCase, reviewed, assessments, decisions, outcome, pages>>

\* materialize_ap2_governance: only where nobody has screened, and only if
\* the facts, answered by now, determine what is to be reviewed.
Materialized == IF screening = "none" THEN {"none", "not_required", "open"} ELSE {screening}

\* The draft of the system becomes an assessment unless a person made one.
AdoptDraft ==
  /\ DraftPage \in pages
  /\ LastAssessor = None
  /\ Len(assessments) < MaxAssessments
  /\ assessments' = Append(assessments, None)
  /\ screening' \in Materialized
  /\ UNCHANGED <<useCase, reviewed, decisions, outcome, pages>>

AnswerUnknowns ==
  /\ screening = "none"
  /\ screening' \in Materialized \ {"none"}
  /\ UNCHANGED <<useCase, reviewed, assessments, decisions, outcome, pages>>

\* save_initiative with a material change; the confirmation is gone.
ReviseOutcome ==
  /\ outcome.revision < MaxRevisions
  /\ outcome' = [revision |-> outcome.revision + 1, confirmed |-> FALSE]
  /\ UNCHANGED <<useCase, reviewed, assessments, decisions, screening, pages>>

ConfirmOutcome ==
  /\ ~outcome.confirmed
  /\ outcome' = [outcome EXCEPT !.confirmed = TRUE]
  /\ UNCHANGED <<useCase, reviewed, assessments, decisions, screening, pages>>

----------------------------------------------------------------------------
LifecycleInit ==
  /\ \E owner \in Owners, technical \in TechnicalOwners :
       useCase = [status |-> "idea", decision |-> "clarification",
                  owner |-> owner, technical |-> technical]
  /\ reviewed = "idea"
  /\ assessments = <<>> /\ decisions = <<>>
  /\ screening = "none"
  /\ outcome = [revision |-> 1, confirmed |-> FALSE]
  /\ pages = {}

LifecycleNext(handover) ==
  \/ OpenUseCase \/ OpenSecondReview \/ AskForDraft
  \/ \E target \in Statuses \ {"idea"} : CreateReview(target, handover)
  \/ \E by \in Coordinators, row \in Rows : Assess(by, row)
  \/ \E kind \in Verdicts, by \in Coordinators : Submit(kind, by)
  \/ \E d \in DOMAIN decisions, by \in Coordinators : Confirm(d, by) \/ Return(d, by)
  \/ \E row \in Rows, owner \in Owners, technical \in TechnicalOwners :
       Edit(row, owner, technical)
  \/ Screen \/ GovernanceReview \/ AdoptDraft \/ AnswerUnknowns
  \/ ReviseOutcome \/ ConfirmOutcome

LifecycleSpec ==
  LifecycleInit /\ [][\E handover \in BOOLEAN : LifecycleNext(handover)]_lifecycleVars

----------------------------------------------------------------------------
(* Properties. *)

\* Type correctness of the rows and of what requests carry along.
LifecycleTypeOK ==
  /\ useCase \in [status : Statuses, decision : Kinds \cup {"clarification", "ready"},
                  owner : Owners, technical : TechnicalOwners]
  /\ reviewed \in Statuses
  /\ assessments \in Seq(Coordinators \cup {None})
  /\ \A d \in DOMAIN decisions :
       /\ decisions[d].kind \in Kinds /\ decisions[d].by \in Coordinators
       /\ decisions[d].assessment \in 1..Len(assessments)
       /\ decisions[d].second \in Coordinators \cup {None}
       /\ {decisions[d].final, decisions[d].returned} \subseteq BOOLEAN
  /\ screening \in Screening
  /\ outcome \in [revision : 1..MaxRevisions, confirmed : BOOLEAN]

\* A use case counts as approved only if an approval of that kind has been
\* finalised, whatever older copy of the row an edit has written back
\* (UseCase.save: "Positive Freigabe nur über den Entscheidungsservice").
ApprovalIsDecided ==
  useCase.decision \in Approved => Final({useCase.decision}) # {}

\* Whenever the decision of the row turns positive, the last approval of that
\* kind is final and rests on the outcome as it is now and is confirmed: an
\* edit from an old page cannot revive an approval whose basis has moved on
\* (UseCase.save, outcome_contract.snapshot_is_stale).
ApprovalsStandOnOutcome ==
  [][(useCase'.decision \in Approved /\ useCase'.decision # useCase.decision) =>
       LET final == {d \in DOMAIN decisions' :
                       decisions'[d].final /\ decisions'[d].kind = useCase'.decision}
       IN /\ final # {}
          /\ outcome.confirmed /\ decisions'[Latest(final)].basis = outcome.revision]_lifecycleVars

\* At most one approval waits for a second person, however the proposals,
\* answers and returns of several coordinators interleave
\* (submit_approval_decision: "Es besteht bereits eine offene zweite Freigabe").
OneOpenSecondApproval ==
  \A d, e \in DOMAIN decisions : Pending(d) /\ Pending(e) => d = e

\* When an approval becomes final it rests on the assessment and the outcome
\* of that moment, and who decided, who confirmed and who assessed are
\* different people, none of the deciders being the owner the row then names
\* (approval_check, confirm_conditional_decision).
DutiesAreSeparate ==
  [][\A d \in DOMAIN decisions' :
       (decisions'[d].final /\ decisions'[d].kind \in Approved
          /\ (d \notin DOMAIN decisions \/ ~decisions[d].final)) =>
         /\ decisions'[d].assessment = Len(assessments)
         /\ decisions'[d].basis = outcome.revision /\ outcome.confirmed
         /\ decisions'[d].by \notin {LastAssessor, useCase.owner}
         /\ decisions'[d].kind = "approved_with_conditions" =>
              decisions'[d].second \notin {None, LastAssessor, decisions'[d].by}]_lifecycleVars
=============================================================================
