------------------------ MODULE DeliveryPackagesProofs ------------------------
(***************************************************************************)
(* Theorems about DeliveryPackages, for any sections and confirmations     *)
(* they require, any people and any number of packages and pages.          *)
(***************************************************************************)
EXTENDS DeliveryPackages, UseCaseLifecycleProofs

----------------------------------------------------------------------------
(* The inductive invariant. *)

Review == [state : SectionStates, business : Coordinators \cup {None},
           technical : Coordinators \cup {None}]

Package == [status : {"draft", "ready", "handed_over"}, decision : Nat, owner : TechnicalOwners,
            source : TechnicalOwners, sections : [Sections -> Review]]

\* A package stands on a final approval, and a page shows what was a package.
PackagesAreTyped ==
  /\ packages \in Seq(Package)
  /\ \A v \in DOMAIN packages : packages[v].decision \in Final(Approved)
  /\ settled \in [sound : SUBSET Nat, over : SUBSET Nat, reached : SUBSET Statuses]
  /\ \A p \in pages : p.kind = "package" =>
       p.version \in DOMAIN packages /\ p.package \in Package

Sound(package, technical) == package.status = "ready" /\ Ready(package, technical)

\* What is sound now, or was when a page was read, has been recorded as sound.
SoundnessIsRecorded ==
  /\ \A v \in DOMAIN packages : Sound(packages[v], useCase.technical) => v \in settled.sound
  /\ \A p \in pages :
       p.kind = "package" /\ Sound(p.package, p.technical) => p.version \in settled.sound

\* What the rows call handed over has been handed over.
HandoversAreRecorded ==
  /\ \A v \in DOMAIN packages : packages[v].status = "handed_over" => v \in settled.over
  /\ settled.over \subseteq DOMAIN packages

\* A status in the row, or in a copy of it on a page, has been reached.
StatusesWereReached ==
  /\ \A row \in Rows : row.status \in settled.reached \cup {"idea"}
  /\ reviewed \in settled.reached \cup {"idea"}

DInv ==
  /\ LInv /\ PackagesAreTyped /\ SoundnessIsRecorded /\ HandedOverWasConfirmed
  /\ HandoversAreRecorded /\ StatusesWereReached

----------------------------------------------------------------------------
(* What a step of the lifecycle means for the packages. *)

\* What is final stays final.
LEMMA FinalsStay ==
  ASSUME LInv, LifecycleStep
  PROVE  Final(Approved) \subseteq Final(Approved)'
<1>1. CASE UNCHANGED decisions
  BY <1>1 DEF Final
<1>2. ASSUME NEW kind \in Verdicts, NEW by \in Coordinators, Submit(kind, by)
      PROVE  Final(Approved) \subseteq Final(Approved)'
  <2>1. kind \in Kinds /\ decisions \in Seq(Decision) /\ NewDecision(kind, by) \in Decision
    BY LifecycleAssumption, NewDecisionIsTyped DEF LInv, RowsAreTyped
  <2>2. /\ \A d \in DOMAIN decisions : decisions'[d] = decisions[d]
        /\ DOMAIN decisions \subseteq DOMAIN decisions'
    BY <1>2, <2>1, AfterAppend DEF Submit
  <2>3. QED
    BY <2>2 DEF Final
<1>3. ASSUME NEW d \in DOMAIN decisions, NEW by \in Coordinators, Confirm(d, by) \/ Return(d, by)
      PROVE  Final(Approved) \subseteq Final(Approved)'
  <2>1. decisions[d] \in Decision
    BY DEF LInv, RowsAreTyped
  <2>2. DOMAIN decisions' = DOMAIN decisions /\ \A e \in DOMAIN decisions : e # d => decisions'[e] = decisions[e]
    BY <1>3 DEF Confirm, Return
  <2>3. decisions'[d].kind = decisions[d].kind /\ (decisions[d].final => decisions'[d].final)
    BY <1>3, <2>1 DEF Confirm, Return, Decision
  <2>4. QED
    BY <2>2, <2>3 DEF Final
<1>4. ASSUME NEW handover \in BOOLEAN, LifecycleNext(handover), ~UNCHANGED decisions
      PROVE  \/ \E kind \in Verdicts, by \in Coordinators : Submit(kind, by)
             \/ \E d \in DOMAIN decisions, by \in Coordinators : Confirm(d, by) \/ Return(d, by)
  BY <1>4 DEF LifecycleNext, OpenUseCase, OpenSecondReview, AskForDraft, Load, CreateReview,
     Assess, Edit, Screen, GovernanceReview, AdoptDraft, AnswerUnknowns, ReviseOutcome, ConfirmOutcome
<1>5. ASSUME NEW page, Load(page) PROVE UNCHANGED decisions
  BY <1>5 DEF Load
<1>6. QED
  BY <1>1, <1>2, <1>3, <1>4, <1>5 DEF LifecycleStep, lifecycleVars

\* The lifecycle keeps no pages of packages.
LEMMA PackagePagesStay ==
  ASSUME NEW handover, LifecycleNext(handover)
  PROVE  \A p \in pages' : p.kind = "package" => p \in pages
<1>1. CASE OpenUseCase \/ OpenSecondReview \/ AskForDraft
  <2>1. PICK page : Load(page) /\ page \in {UseCasePage, DraftPage}
                      \cup {DecisionPage(d) : d \in DOMAIN decisions}
    BY <1>1 DEF OpenUseCase, OpenSecondReview, AskForDraft
  <2>2. page.kind # "package"
    BY <2>1 DEF UseCasePage, DraftPage, DecisionPage
  <2>3. QED
    BY <2>1, <2>2 DEF Load
<1>2. CASE UNCHANGED pages
  BY <1>2
<1>3. QED
  BY <1>1, <1>2 DEF LifecycleNext, CreateReview, Assess, Submit, Confirm, Return, Edit, Screen,
     GovernanceReview, AdoptDraft, AnswerUnknowns, ReviseOutcome, ConfirmOutcome

\* A step of the lifecycle that is no review writes no status that was not in
\* the row or on a page before; a review writes its target.
LEMMA StatusesMove ==
  ASSUME LInv, NEW handover, LifecycleNext(handover)
  PROVE  \/ /\ reviewed' = reviewed
            /\ \A row \in Rows' : \E old \in Rows : row.status = old.status
         \/ \E target \in Statuses \ {"idea"} :
              /\ CreateReview(target, handover)
              /\ \A row \in Rows' : row.status = target \/ row \in Rows
<1>1. useCase \in UseCaseRow /\ Rows \subseteq UseCaseRow /\ useCase \in Rows
  BY RowsAreRows DEF LInv, RowsAreTyped, Rows
<1>2. ASSUME UNCHANGED pages
      PROVE  \A row \in Rows' : row = useCase' \/ row \in Rows
  BY <1>2 DEF Rows
<1>3. ASSUME NEW target \in Statuses \ {"idea"}, CreateReview(target, handover)
      PROVE  \A row \in Rows' : row.status = target \/ row \in Rows
  <2>1. useCase'.status = target
    BY <1>1, <1>3 DEF CreateReview, UseCaseRow
  <2>2. QED
    BY <1>2, <1>3, <2>1 DEF CreateReview
<1>4. CASE OpenUseCase \/ OpenSecondReview \/ AskForDraft
  <2>1. PICK page : Load(page) /\ page \in {UseCasePage, DraftPage}
                      \cup {DecisionPage(d) : d \in DOMAIN decisions}
    BY <1>4 DEF OpenUseCase, OpenSecondReview, AskForDraft
  <2>2. page.kind = "use_case" => page.row = useCase
    BY <2>1 DEF UseCasePage, DraftPage, DecisionPage
  <2>3. UNCHANGED <<useCase, reviewed>> /\ pages' = pages \cup {page}
    BY <2>1 DEF Load
  <2>4. \A row \in Rows' : row \in Rows
    BY <2>2, <2>3 DEF Rows
  <2>5. QED
    BY <2>3, <2>4
<1>5. ASSUME NEW row \in Rows, UNCHANGED <<reviewed, pages>>, useCase'.status = row.status
      PROVE  /\ reviewed' = reviewed
             /\ \A new \in Rows' : \E old \in Rows : new.status = old.status
  BY <1>2, <1>5
<1>6. ASSUME NEW by \in Coordinators, NEW row \in Rows, Assess(by, row)
      PROVE  UNCHANGED <<reviewed, pages>> /\ useCase'.status = row.status
  BY <1>1, <1>6 DEF Assess, UseCaseRow
<1>7. ASSUME NEW row \in Rows, NEW owner \in Owners, NEW technical \in TechnicalOwners,
             Edit(row, owner, technical)
      PROVE  UNCHANGED <<reviewed, pages>> /\ useCase'.status = row.status
  BY <1>1, <1>7 DEF Edit, UseCaseRow
<1>8. CASE \/ \E kind \in Verdicts, by \in Coordinators : Submit(kind, by)
           \/ \E d \in DOMAIN decisions, by \in Coordinators : Confirm(d, by)
  BY <1>1, <1>5, <1>8 DEF Submit, Confirm, UseCaseRow
<1>9. CASE \/ \E d \in DOMAIN decisions, by \in Coordinators : Return(d, by)
           \/ Screen \/ GovernanceReview \/ AdoptDraft \/ AnswerUnknowns
           \/ ReviseOutcome \/ ConfirmOutcome
  <2>1. UNCHANGED <<useCase, reviewed, pages>>
    BY <1>9 DEF Return, Screen, GovernanceReview, AdoptDraft, AnswerUnknowns, ReviseOutcome,
       ConfirmOutcome
  <2>2. QED
    BY <1>1, <1>5, <2>1
<1>10. QED
  BY <1>3, <1>4, <1>5, <1>6, <1>7, <1>8, <1>9 DEF LifecycleNext

----------------------------------------------------------------------------
(* The steps keep the invariant. *)

\* At first there are no packages.
LEMMA InitialPackages ==
  ASSUME Init
  PROVE  DInv
<1>1. LInv
  BY InitialRows DEF Init
<1>2. PackagesAreTyped
  BY DEF Init, LifecycleInit, PackagesAreTyped
<1>3. SoundnessIsRecorded /\ HandoversAreRecorded /\ HandedOverWasConfirmed
  BY DEF Init, LifecycleInit, SoundnessIsRecorded, HandoversAreRecorded, HandedOverWasConfirmed
<1>4. StatusesWereReached
  BY DEF Init, LifecycleInit, StatusesWereReached, Rows
<1>5. QED
  BY <1>1, <1>2, <1>3, <1>4 DEF DInv

\* The lifecycle moves on; what has become sound by it is recorded.
LEMMA LifecycleKeeps ==
  ASSUME DInv, Lifecycle
  PROVE  DInv'
<1>1. LifecycleNext(RecordedHandover) /\ UNCHANGED packages
  BY DEF Lifecycle
<1>2. LifecycleStep
  <2>1. RecordedHandover \in BOOLEAN
    BY DEF RecordedHandover
  <2>2. QED
    BY <1>1, <2>1 DEF LifecycleStep
<1>3. LInv' /\ LInv
  BY <1>2, LifecycleKeepsInvariant DEF DInv
<1>4. \A p \in pages' : p.kind = "package" => p \in pages
  BY <1>1, PackagePagesStay
<1>5. reviewed' \in Statuses
  BY <1>3 DEF LInv, RowsAreTyped
<1>6. /\ NowSound \in SUBSET Nat
      /\ settled.sound \in SUBSET Nat /\ settled.reached \in SUBSET Statuses
      /\ settled.over \in SUBSET Nat
  BY <1>1 DEF NowSound, DInv, PackagesAreTyped
<1>7. /\ settled' \in [sound : SUBSET Nat, over : SUBSET Nat, reached : SUBSET Statuses]
      /\ settled'.sound = settled.sound \cup NowSound
      /\ settled'.over = settled.over
      /\ settled'.reached = settled.reached \cup {reviewed'}
  BY <1>5, <1>6 DEF Lifecycle, DInv, PackagesAreTyped
<1>8. PackagesAreTyped'
  <2>1. Final(Approved) \subseteq Final(Approved)'
    BY <1>2, <1>3, FinalsStay
  <2>2. QED
    BY <1>1, <1>4, <1>7, <2>1 DEF DInv, PackagesAreTyped
<1>9. SoundnessIsRecorded'
  BY <1>1, <1>4, <1>7 DEF DInv, SoundnessIsRecorded, Sound, NowSound
<1>10. HandoversAreRecorded' /\ HandedOverWasConfirmed'
  BY <1>1, <1>7 DEF DInv, HandoversAreRecorded, HandedOverWasConfirmed
<1>11. StatusesWereReached'
  <2>1. CASE reviewed' = reviewed /\ \A row \in Rows' : \E old \in Rows : row.status = old.status
    BY <1>7, <2>1 DEF DInv, StatusesWereReached
  <2>2. ASSUME NEW target \in Statuses \ {"idea"}, CreateReview(target, RecordedHandover),
               \A row \in Rows' : row.status = target \/ row \in Rows
        PROVE  StatusesWereReached'
    <3>1. reviewed' = target
      BY <2>2 DEF CreateReview
    <3>2. QED
      BY <1>7, <2>2, <3>1 DEF DInv, StatusesWereReached
  <2>3. QED
    BY <1>1, <1>3, <2>1, <2>2, StatusesMove
<1>12. QED
  BY <1>3, <1>8, <1>9, <1>10, <1>11 DEF DInv

\* A page of a package shows what is recorded.
LEMMA OpenKeeps ==
  ASSUME DInv, OpenPackage
  PROVE  DInv'
<1>1. PICK v \in DOMAIN packages : Load(PackagePage(v))
  BY DEF OpenPackage
<1>2. /\ PackagePage(v).kind = "package" /\ PackagePage(v).version = v
      /\ PackagePage(v).package = packages[v] /\ PackagePage(v).technical = useCase.technical
  BY DEF PackagePage
<1> DEFINE page == PackagePage(v)
<1> HIDE DEF page
<1>3. /\ pages' = pages \cup {page}
      /\ UNCHANGED <<useCase, reviewed, assessments, decisions, screening, outcome, packages, settled>>
  BY <1>1 DEF Load, OpenPackage, deliveryVars, page
<1>4. /\ page.kind = "package" /\ page.version = v
      /\ page.package = packages[v] /\ page.technical = useCase.technical
  BY <1>2 DEF page
<1>5. LInv'
  <2>1. LifecycleStep
    BY <1>1, <1>2 DEF LifecycleStep
  <2>2. QED
    BY <2>1, LifecycleKeepsInvariant DEF DInv
<1>6. PackagesAreTyped'
  <2>1. packages[v] \in Package
    BY DEF DInv, PackagesAreTyped
  <2>2. Final(Approved)' = Final(Approved)
    BY <1>3 DEF Final
  <2>3. QED
    BY <1>3, <1>4, <2>1, <2>2 DEF DInv, PackagesAreTyped
<1>7. SoundnessIsRecorded'
  BY <1>3, <1>4 DEF DInv, SoundnessIsRecorded, Sound
<1>8. HandoversAreRecorded' /\ HandedOverWasConfirmed'
  BY <1>3 DEF DInv, HandoversAreRecorded, HandedOverWasConfirmed
<1>9. StatusesWereReached'
  <2>1. Rows' = Rows
    BY <1>3, <1>4 DEF Rows
  <2>2. QED
    BY <1>3, <2>1 DEF DInv, StatusesWereReached
<1>10. QED
  BY <1>5, <1>6, <1>7, <1>8, <1>9 DEF DInv

\* A use case that is left alone keeps what the invariant says of it.
LEMMA UseCaseStays ==
  ASSUME DInv, UNCHANGED lifecycleVars
  PROVE  /\ LInv' /\ Final(Approved)' = Final(Approved) /\ Rows' = Rows
         /\ UNCHANGED <<useCase, reviewed, pages>>
<1>1. LInv'
  BY LifecycleKeepsInvariant DEF LifecycleStep, DInv
<1>2. QED
  BY <1>1 DEF lifecycleVars, Final, Rows

\* A new version is a draft for the latest final approval.
LEMMA CreateKeeps ==
  ASSUME DInv, NEW row \in Rows, CreatePackage(row)
  PROVE  DInv'
<1> DEFINE new == [status |-> "draft", decision |-> LatestApproval, owner |-> row.technical,
                   source |-> row.technical, sections |-> [s \in Sections |-> Unreviewed]]
           last == Len(packages) + 1
<1>1. /\ LInv' /\ Final(Approved)' = Final(Approved) /\ Rows' = Rows
      /\ UNCHANGED <<useCase, reviewed, pages, settled>>
  BY UseCaseStays DEF CreatePackage
<1>2. LatestApproval \in Final(Approved) /\ LatestApproval \in Nat
  <2>1. Final(Approved) \in SUBSET (1..Len(decisions)) /\ Len(decisions) \in Nat
    BY FinalAreDecisions DEF DInv, LInv
  <2>2. Final(Approved) # {}
    BY DEF CreatePackage
  <2>3. Latest(Final(Approved)) \in Final(Approved)
    BY <2>1, <2>2, LatestExists
  <2>4. QED
    BY <2>1, <2>3 DEF LatestApproval
<1>3. new \in Package
  <2>1. row.technical \in TechnicalOwners
    BY RowsAreRows DEF DInv, LInv, UseCaseRow
  <2>2. Unreviewed \in Review
    BY DEF Unreviewed, Review, SectionStates
  <2>3. QED
    BY <1>2, <2>1, <2>2 DEF Package
<1>4. packages' = Append(packages, new)
  BY DEF CreatePackage
<1>5. new.status = "draft" /\ new.decision \in Final(Approved)
  BY <1>2
<1> HIDE DEF new
<1>6. /\ packages' \in Seq(Package)
      /\ DOMAIN packages \subseteq DOMAIN packages'
      /\ \A v \in DOMAIN packages : packages'[v] = packages[v]
      /\ \A v \in DOMAIN packages' : v \in DOMAIN packages \/ packages'[v] = new
  BY <1>3, <1>4 DEF DInv, PackagesAreTyped
<1>7. PackagesAreTyped'
  BY <1>1, <1>5, <1>6 DEF DInv, PackagesAreTyped
<1>8. SoundnessIsRecorded'
  BY <1>1, <1>5, <1>6 DEF DInv, SoundnessIsRecorded, Sound
<1>9. HandoversAreRecorded' /\ HandedOverWasConfirmed'
  BY <1>1, <1>5, <1>6 DEF DInv, HandoversAreRecorded, HandedOverWasConfirmed
<1>10. StatusesWereReached'
  BY <1>1 DEF DInv, StatusesWereReached
<1>11. QED
  BY <1>1, <1>7, <1>8, <1>9, <1>10 DEF DInv

\* Writing a row of the same approval that is not newly handed over.
LEMMA WriteKeeps ==
  ASSUME DInv, NEW v \in DOMAIN packages, NEW row \in Package, Written(row, v),
         row.decision = packages[v].decision,
         row.status = "handed_over" => packages[v].status = "handed_over"
  PROVE  DInv'
<1>1. /\ LInv' /\ Final(Approved)' = Final(Approved) /\ Rows' = Rows
      /\ UNCHANGED <<useCase, reviewed, pages>>
  BY UseCaseStays DEF Written
<1>2. /\ packages' \in Seq(Package) /\ DOMAIN packages' = DOMAIN packages
      /\ packages'[v] = row
      /\ \A w \in DOMAIN packages : w # v => packages'[w] = packages[w]
  BY ExceptSeq DEF Written, DInv, PackagesAreTyped
<1>3. /\ settled' \in [sound : SUBSET Nat, over : SUBSET Nat, reached : SUBSET Statuses]
      /\ settled'.sound = settled.sound \cup NowSound
      /\ settled'.over = settled.over
      /\ settled'.reached = settled.reached
  <2>1. NowSound \in SUBSET Nat
    BY <1>2 DEF NowSound
  <2>2. QED
    BY <2>1 DEF Written, DInv, PackagesAreTyped
<1>4. PackagesAreTyped'
  BY <1>1, <1>2, <1>3 DEF DInv, PackagesAreTyped
<1>5. SoundnessIsRecorded'
  BY <1>1, <1>2, <1>3 DEF DInv, SoundnessIsRecorded, Sound, NowSound
<1>6. HandoversAreRecorded' /\ HandedOverWasConfirmed'
  BY <1>1, <1>2, <1>3 DEF DInv, HandoversAreRecorded, HandedOverWasConfirmed
<1>7. StatusesWereReached'
  BY <1>1, <1>3 DEF DInv, StatusesWereReached
<1>8. QED
  BY <1>1, <1>4, <1>5, <1>6, <1>7 DEF DInv

\* A page shows a package, and if it is sound there it is recorded as sound.
LEMMA PagesShowPackages ==
  ASSUME DInv, NEW v \in DOMAIN packages, NEW page \in PagesOf(v)
  PROVE  /\ page.package \in Package
         /\ Sound(page.package, page.technical) => v \in settled.sound
<1>1. CASE page = PackagePage(v)
  BY <1>1 DEF PackagePage, DInv, PackagesAreTyped, SoundnessIsRecorded
<1>2. CASE page \in pages /\ page.kind = "package" /\ page.version = v
  BY <1>2 DEF DInv, PackagesAreTyped, SoundnessIsRecorded
<1>3. QED
  BY <1>1, <1>2 DEF PagesOf

\* A reset leaves a review of every section.
LEMMA ResetIsTyped ==
  ASSUME NEW sections \in [Sections -> Review], NEW some
  PROVE  Reset(sections, some) \in [Sections -> Review]
BY DEF Reset, Unreviewed, Review, SectionStates

\* The package form.
LEMMA EditPackageKeeps ==
  ASSUME DInv, NEW v \in DOMAIN packages, NEW page \in PagesOf(v), NEW changed \in SUBSET Sections,
         EditPackage(v, page, changed)
  PROVE  DInv'
<1> DEFINE status == IF changed = {} THEN page.package.status ELSE Withdrawn(page.package.status)
           row == [packages[v] EXCEPT !.status = status, !.owner = page.package.owner,
                                      !.sections = Reset(@, changed)]
<1>1. packages[v] \in Package /\ page.package \in Package
  BY PagesShowPackages DEF DInv, PackagesAreTyped
<1>2. status \in {"draft", "ready"}
  BY <1>1 DEF EditPackage, Withdrawn, Package
<1>3. Reset(packages[v].sections, changed) \in [Sections -> Review]
  BY <1>1, ResetIsTyped DEF Package
<1> HIDE DEF status
<1>4. row \in Package /\ row.decision = packages[v].decision /\ row.status = status
  BY <1>1, <1>2, <1>3 DEF Package
<1>5. Written(row, v)
  BY DEF EditPackage, status
<1> HIDE DEF row
<1>6. QED
  BY <1>2, <1>4, <1>5, WriteKeeps

\* A section review keeps the section a review.
LEMMA DecidedIsTyped ==
  ASSUME NEW review \in Review, NEW s \in Sections, NEW by \in Coordinators,
         NEW act \in Sides \cup {"blocked", "not_applicable", "reset"}
  PROVE  Decided(review, s, act, by) \in Review
<1>1. CASE act \in Sides
  <2> DEFINE signed == [review EXCEPT ![act] = by]
  <2>1. signed \in Review
    <3>1. CASE act = "business"
      BY <3>1 DEF Review
    <3>2. CASE act = "technical"
      BY <3>2 DEF Review
    <3>3. QED
      BY <1>1, <3>1, <3>2 DEF Sides
  <2> HIDE DEF signed
  <2>2. Decided(review, s, act, by) =
          [signed EXCEPT !.state = IF Complete(signed, s) THEN "confirmed" ELSE "needs_review"]
    BY <1>1 DEF Decided, signed, Sides
  <2>3. QED
    BY <2>1, <2>2 DEF Review, SectionStates
<1>2. CASE act \in {"blocked", "not_applicable"}
  BY <1>2 DEF Decided, Review, SectionStates, Sides
<1>3. CASE act = "reset"
  BY <1>3 DEF Decided, Review, SectionStates, Unreviewed, Sides
<1>4. QED
  BY <1>1, <1>2, <1>3

\* A section review writes the status of its page back.
LEMMA ReviewSectionKeeps ==
  ASSUME DInv, NEW v \in DOMAIN packages, NEW page \in PagesOf(v), NEW s \in Sections,
         NEW act \in Sides \cup {"blocked", "not_applicable", "reset"}, NEW by \in Coordinators,
         ReviewSection(v, page, s, act, by)
  PROVE  DInv'
<1> DEFINE decided == Decided(packages[v].sections[s], s, act, by)
           row == [packages[v] EXCEPT !.sections[s] = decided,
                     !.status = IF page.package.status = "ready" THEN "draft" ELSE @]
<1>1. packages[v] \in Package
  BY DEF DInv, PackagesAreTyped
<1>2. decided \in Review
  BY <1>1, DecidedIsTyped DEF Package
<1>3. Written(row, v)
  BY DEF ReviewSection
<1> HIDE DEF decided
<1>4. /\ row \in Package /\ row.decision = packages[v].decision
      /\ row.status \in {"draft", packages[v].status}
  BY <1>1, <1>2 DEF Package
<1> HIDE DEF row
<1>5. QED
  BY <1>3, <1>4, WriteKeeps

\* The change of a technical owner.
LEMMA ResolveKeeps ==
  ASSUME DInv, NEW v \in DOMAIN packages, NEW adopt \in BOOLEAN, ResolveOwner(v, adopt)
  PROVE  DInv'
<1> DEFINE technical == {s \in Sections : "technical" \in Required[s]}
           row == [packages[v] EXCEPT !.owner = IF adopt THEN useCase.technical ELSE @,
                     !.source = useCase.technical, !.sections = Reset(@, technical),
                     !.status = Withdrawn(@)]
<1>1. packages[v] \in Package /\ useCase.technical \in TechnicalOwners
  BY DEF DInv, PackagesAreTyped, LInv, RowsAreTyped, UseCaseRow
<1>2. Reset(packages[v].sections, technical) \in [Sections -> Review]
  BY <1>1, ResetIsTyped DEF Package
<1>3. Withdrawn(packages[v].status) \in {"draft", packages[v].status}
  BY DEF Withdrawn
<1>4. Written(row, v)
  BY DEF ResolveOwner
<1>5. /\ row \in Package /\ row.decision = packages[v].decision
      /\ row.status = Withdrawn(packages[v].status)
  BY <1>1, <1>2, <1>3 DEF Package
<1> HIDE DEF row
<1>6. QED
  BY <1>3, <1>4, <1>5, WriteKeeps

\* A version marked ready.
LEMMA MarkKeeps ==
  ASSUME DInv, NEW v \in DOMAIN packages, NEW page \in PagesOf(v), MarkReady(v, page)
  PROVE  DInv'
<1> DEFINE row == [packages[v] EXCEPT !.status = "ready"]
<1>1. packages[v] \in Package
  BY DEF DInv, PackagesAreTyped
<1>2. row \in Package /\ row.decision = packages[v].decision /\ row.status = "ready"
  BY <1>1 DEF Package
<1>3. Written(row, v)
  BY DEF MarkReady
<1> HIDE DEF row
<1>4. QED
  BY <1>2, <1>3, WriteKeeps

\* A handover finds the version ready and confirmed, now or on its page.
LEMMA HandOverKeeps ==
  ASSUME DInv, NEW v \in DOMAIN packages, NEW page \in PagesOf(v), HandOver(v, page)
  PROVE  DInv' /\ v \in settled.sound
<1>1. /\ LInv' /\ Final(Approved)' = Final(Approved) /\ Rows' = Rows
      /\ UNCHANGED <<useCase, reviewed, pages>>
  BY UseCaseStays DEF HandOver
<1>2. v \in settled.sound
  BY PagesShowPackages DEF HandOver, Sound
<1> DEFINE row == [packages[v] EXCEPT !.status = "handed_over"]
<1>3. packages[v] \in Package /\ packages \in Seq(Package) /\ v \in Nat
  BY DEF DInv, PackagesAreTyped
<1>4. row \in Package /\ row.decision = packages[v].decision /\ row.status = "handed_over"
  BY <1>3 DEF Package
<1>5. packages' = [packages EXCEPT ![v] = row]
  BY <1>3 DEF HandOver
<1> HIDE DEF row
<1>6. /\ packages' \in Seq(Package) /\ DOMAIN packages' = DOMAIN packages
      /\ packages'[v] = row
      /\ \A w \in DOMAIN packages : w # v => packages'[w] = packages[w]
  BY <1>3, <1>4, <1>5, ExceptSeq
<1>7. /\ settled' \in [sound : SUBSET Nat, over : SUBSET Nat, reached : SUBSET Statuses]
      /\ settled'.sound = settled.sound /\ settled'.reached = settled.reached
      /\ settled'.over = settled.over \cup {v}
  BY <1>3 DEF HandOver, DInv, PackagesAreTyped
<1>8. PackagesAreTyped'
  BY <1>1, <1>4, <1>6, <1>7 DEF DInv, PackagesAreTyped
<1>9. SoundnessIsRecorded'
  BY <1>1, <1>4, <1>6, <1>7 DEF DInv, SoundnessIsRecorded, Sound
<1>10. HandoversAreRecorded' /\ HandedOverWasConfirmed'
  BY <1>2, <1>4, <1>6, <1>7 DEF DInv, HandoversAreRecorded, HandedOverWasConfirmed
<1>11. StatusesWereReached'
  BY <1>1, <1>7 DEF DInv, StatusesWereReached
<1>12. QED
  BY <1>1, <1>2, <1>8, <1>9, <1>10, <1>11 DEF DInv

\* Every step keeps the invariant.
LEMMA NextKeeps ==
  ASSUME DInv, [Next]_vars
  PROVE  DInv'
<1>1. CASE Lifecycle
  BY <1>1, LifecycleKeeps
<1>2. CASE OpenPackage
  BY <1>2, OpenKeeps
<1>3. CASE \E row \in Rows : CreatePackage(row)
  BY <1>3, CreateKeeps
<1>4. ASSUME NEW v \in DOMAIN packages, PackageStep(v) PROVE DInv'
  BY <1>4, EditPackageKeeps, ReviewSectionKeeps, MarkKeeps, HandOverKeeps DEF PackageStep
<1>5. ASSUME NEW v \in DOMAIN packages, NEW adopt \in BOOLEAN, ResolveOwner(v, adopt) PROVE DInv'
  BY <1>5, ResolveKeeps
<1>6. CASE UNCHANGED vars
  <2>1. /\ LInv' /\ Final(Approved)' = Final(Approved) /\ Rows' = Rows
        /\ UNCHANGED <<useCase, reviewed, pages, packages, settled>>
    BY <1>6, UseCaseStays DEF vars, deliveryVars
  <2>2. QED
    BY <2>1 DEF DInv, PackagesAreTyped, SoundnessIsRecorded, Sound, HandedOverWasConfirmed,
       HandoversAreRecorded, StatusesWereReached
<1>7. QED
  BY <1>1, <1>2, <1>3, <1>4, <1>5, <1>6 DEF Next

----------------------------------------------------------------------------
(* The theorems. *)

\* The inductive invariant of the composition.
LEMMA DeliveryInvariant == Spec => []DInv
<1>1. Init => DInv
  BY InitialPackages
<1>2. DInv /\ [Next]_vars => DInv'
  BY NextKeeps
<1>3. QED
  BY <1>1, <1>2, PTL DEF Spec

\* Packages, sections and the use case they belong to keep their types, and a
\* package names a decision that exists (create_delivery_package, the forms).
THEOREM DeliveryTypes == Spec => []DeliveryTypeOK
<1>1. DInv => DeliveryTypeOK
  <2>1. SUFFICES ASSUME DInv PROVE DeliveryTypeOK
    OBVIOUS
  <2>2. LifecycleTypeOK
    BY <2>1, RowsAreTypeOK DEF DInv
  <2>3. ASSUME NEW v \in DOMAIN packages
        PROVE  packages[v] \in Package /\ packages[v].decision \in DOMAIN decisions
    BY <2>1 DEF DInv, PackagesAreTyped, Final
  <2>4. QED
    BY <2>2, <2>3 DEF DeliveryTypeOK, Package, Review
<1>2. QED
  BY <1>1, DeliveryInvariant, PTL

\* Whatever pages handovers, edits and reviews work from, only a version that
\* was once ready and fully confirmed is handed over (hand_over_package).
THEOREM HandedOverWasAlwaysConfirmed == Spec => []HandedOverWasConfirmed
<1>1. DInv => HandedOverWasConfirmed
  BY DEF DInv
<1>2. QED
  BY <1>1, DeliveryInvariant, PTL

----------------------------------------------------------------------------
(* The packages and the lifecycle keep the gates. *)

Started == {"pilot", "operation", "ended"}

\* The gates that are passed, one by one.
LEMMA PassedOneByOne ==
  /\ "approved" \in PassedGates <=> Final(Approved) # {}
  /\ "handed_over" \in PassedGates <=> settled.over # {}
  /\ \A g \in Started : g \in PassedGates <=> g \in settled.reached
  /\ PassedGates \subseteq {"approved", "handed_over"} \cup Started
BY DEF PassedGates, Started

\* What was approved before a handover stays approved, and a handover leaves
\* a package.
LEMMA HandedOverIsApproved ==
  ASSUME DInv, settled.over # {}
  PROVE  Final(Approved) # {}
<1>1. PICK v : v \in DOMAIN packages
  BY DEF DInv, HandoversAreRecorded
<1>2. QED
  BY <1>1 DEF DInv, PackagesAreTyped

\* Gates grow from what they rest on: an approval, the first handover after
\* it, and the statuses a review leads to.
LEMMA OnlyApproves ==
  ASSUME DInv, Final(Approved) \subseteq Final(Approved)', settled'.over = settled.over,
         settled'.reached \cap Started = settled.reached \cap Started
  PROVE  [Gates!Next]_PassedGates
<1>1. CASE Final(Approved) = {} /\ Final(Approved)' # {}
  <2>1. PassedGates' = PassedGates \cup {"approved"} /\ "approved" \notin PassedGates
    BY <1>1 DEF PassedGates, Started
  <2>2. Gates!Pass("approved")
    BY <2>1 DEF Gates!Pass, Gates!Rests, Gates!Gates
  <2>3. QED
    BY <2>2 DEF Gates!Next, Gates!Gates
<1>2. CASE ~(Final(Approved) = {} /\ Final(Approved)' # {})
  BY <1>2 DEF PassedGates, Started
<1>3. QED
  BY <1>1, <1>2

\* A review passes the gate of its target, unless it was passed before.
LEMMA ReviewPassesGate ==
  ASSUME DInv, DInv', NEW target \in Statuses \ {"idea"}, CreateReview(target, RecordedHandover),
         Final(Approved) \subseteq Final(Approved)',
         settled'.over = settled.over, settled'.reached = settled.reached \cup {target}
  PROVE  [Gates!Next]_PassedGates
<1>1. Final(Approved)' = Final(Approved)
  BY DEF CreateReview, Final
<1>2. CASE target \notin Started
  <2>1. settled'.reached \cap Started = settled.reached \cap Started
    BY <1>2
  <2>2. QED
    BY <2>1, OnlyApproves
<1>3. CASE target \in Started /\ target \in settled.reached
  <2>1. PassedGates' = PassedGates
    BY <1>1, <1>3 DEF PassedGates
  <2>2. QED
    BY <2>1
<1>4. CASE target \in Started /\ target \notin settled.reached
  <2>1. PassedGates' = PassedGates \cup {target} /\ target \notin PassedGates
    BY <1>1, <1>4 DEF PassedGates, Started
  <2>2. useCase.status \in settled.reached \cup {"idea"} /\ useCase.status \in Sources[target]
    BY DEF DInv, StatusesWereReached, Rows, CreateReview, MayEnter
  <2>3. CASE target = "pilot"
    <3>1. packages # <<>> /\ packages[Len(packages)].status = "handed_over"
      BY <2>3 DEF CreateReview, MayEnter, RecordedHandover
    <3>2. Len(packages) \in DOMAIN packages
      BY <3>1 DEF DInv, PackagesAreTyped
    <3>3. settled.over # {}
      BY <3>1, <3>2 DEF DInv, HandoversAreRecorded
    <3>4. {"approved", "handed_over"} \subseteq PassedGates
      BY <3>3, HandedOverIsApproved DEF PassedGates
    <3>5. Gates!Pass("pilot")
      BY <2>1, <2>3, <3>4 DEF Gates!Pass, Gates!Rests, Gates!Gates
    <3>6. QED
      BY <3>5 DEF Gates!Next, Gates!Gates
  <2>4. CASE target = "operation"
    <3>1. "pilot" \in PassedGates
      BY <2>2, <2>4 DEF Sources, Statuses, PassedGates
    <3>2. Gates!Pass("operation")
      BY <2>1, <2>4, <3>1 DEF Gates!Pass, Gates!Rests, Gates!Gates
    <3>3. QED
      BY <3>2 DEF Gates!Next, Gates!Gates
  <2>5. CASE target = "ended"
    <3>1. "pilot" \in PassedGates \/ "operation" \in PassedGates
      BY <2>2, <2>5 DEF Sources, Statuses, PassedGates
    <3>2. Gates!Pass("ended")
      BY <2>1, <2>5, <3>1 DEF Gates!Pass, Gates!Rests, Gates!Gates
    <3>3. QED
      BY <3>2 DEF Gates!Next, Gates!Gates
  <2>6. QED
    BY <1>4, <2>3, <2>4, <2>5 DEF Started
<1>5. QED
  BY <1>2, <1>3, <1>4

\* A step of the lifecycle passes at most one gate.
LEMMA LifecyclePassesGate ==
  ASSUME DInv, DInv', Lifecycle
  PROVE  [Gates!Next]_PassedGates
<1>1. LInv /\ LifecycleNext(RecordedHandover)
  BY DEF DInv, Lifecycle
<1>2. LifecycleStep
  <2>1. RecordedHandover \in BOOLEAN
    BY DEF RecordedHandover
  <2>2. QED
    BY <1>1, <2>1 DEF LifecycleStep
<1>3. Final(Approved) \subseteq Final(Approved)'
  BY <1>1, <1>2, FinalsStay
<1>4. settled'.over = settled.over /\ settled'.reached = settled.reached \cup {reviewed'}
  BY DEF Lifecycle, DInv, PackagesAreTyped
<1>5. CASE reviewed' = reviewed
  <2>1. settled'.reached \cap Started = settled.reached \cap Started
    BY <1>4, <1>5 DEF DInv, StatusesWereReached, Started
  <2>2. QED
    BY <1>3, <1>4, <2>1, OnlyApproves
<1>6. ASSUME NEW target \in Statuses \ {"idea"}, CreateReview(target, RecordedHandover)
      PROVE  [Gates!Next]_PassedGates
  <2>1. reviewed' = target
    BY <1>6 DEF CreateReview
  <2>2. QED
    BY <1>3, <1>4, <1>6, <2>1, ReviewPassesGate
<1>7. QED
  BY <1>1, <1>5, <1>6, StatusesMove

\* A handover passes the gate that an approval has opened.
LEMMA HandOverPassesGate ==
  ASSUME DInv, NEW v \in DOMAIN packages, NEW page \in PagesOf(v), HandOver(v, page)
  PROVE  [Gates!Next]_PassedGates
<1>1. Final(Approved)' = Final(Approved)
  BY UseCaseStays DEF HandOver
<1>2. settled'.reached = settled.reached /\ settled'.over = settled.over \cup {v}
  BY DEF HandOver, DInv, PackagesAreTyped
<1>3. CASE settled.over # {}
  BY <1>1, <1>2, <1>3 DEF PassedGates
<1>4. CASE settled.over = {}
  <2>1. PassedGates' = PassedGates \cup {"handed_over"} /\ "handed_over" \notin PassedGates
    BY <1>1, <1>2, <1>4 DEF PassedGates
  <2>2. "approved" \in PassedGates
    BY DEF DInv, PackagesAreTyped, PassedGates
  <2>3. Gates!Pass("handed_over")
    BY <2>1, <2>2 DEF Gates!Pass, Gates!Rests, Gates!Gates
  <2>4. QED
    BY <2>3 DEF Gates!Next, Gates!Gates
<1>5. QED
  BY <1>3, <1>4

\* No other step touches what the gates are read from.
LEMMA OthersPassNoGate ==
  ASSUME UNCHANGED lifecycleVars, settled'.over = settled.over, settled'.reached = settled.reached
  PROVE  UNCHANGED PassedGates
BY DEF lifecycleVars, Final, PassedGates

\* A written row hands nothing over.
LEMMA WrittenPassesNoGate ==
  ASSUME DInv, NEW v, NEW row, Written(row, v)
  PROVE  UNCHANGED PassedGates
<1>1. settled'.over = settled.over /\ settled'.reached = settled.reached
  BY DEF Written, DInv, PackagesAreTyped
<1>2. QED
  BY <1>1, OthersPassNoGate DEF Written

\* Each gate is passed once, and none before those it rests on, however many
\* packages and pages there are and whatever an old page writes back
\* (COMMAND_RULES, validate_pilot_start, recorded_handover_package).
THEOREM GatesAreKept == Spec => KeepsGates
<1>1. Init => Gates!Init
  BY DEF Init, LifecycleInit, PassedGates, Final, Gates!Init
<1>2. DInv /\ [Next]_vars => [Gates!Next]_PassedGates
  <2>1. SUFFICES ASSUME DInv, [Next]_vars PROVE [Gates!Next]_PassedGates
    OBVIOUS
  <2>2. DInv'
    BY <2>1, NextKeeps
  <2>3. CASE Lifecycle
    BY <2>1, <2>2, <2>3, LifecyclePassesGate
  <2>4. CASE OpenPackage
    BY <2>4 DEF OpenPackage, Load, deliveryVars, PassedGates, Final
  <2>5. CASE \E row \in Rows : CreatePackage(row)
    BY <2>5, OthersPassNoGate DEF CreatePackage
  <2>6. ASSUME NEW v \in DOMAIN packages, PackageStep(v) PROVE [Gates!Next]_PassedGates
    BY <2>1, <2>6, WrittenPassesNoGate, HandOverPassesGate
       DEF PackageStep, EditPackage, ReviewSection, MarkReady
  <2>7. ASSUME NEW v \in DOMAIN packages, NEW adopt \in BOOLEAN, ResolveOwner(v, adopt)
        PROVE  [Gates!Next]_PassedGates
    BY <2>1, <2>7, WrittenPassesNoGate DEF ResolveOwner
  <2>8. CASE UNCHANGED vars
    BY <2>8, OthersPassNoGate DEF vars, deliveryVars
  <2>9. QED
    BY <2>1, <2>3, <2>4, <2>5, <2>6, <2>7, <2>8 DEF Next
<1>3. QED
  BY <1>1, <1>2, DeliveryInvariant, PTL DEF Spec, KeepsGates, Gates!Spec
============================================================================
