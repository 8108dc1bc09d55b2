--------------------------- MODULE DeliveryPackages ---------------------------
(***************************************************************************)
(* The delivery packages of one use case and their handover, composed with *)
(* the lifecycle they belong to: a package is generated from a final       *)
(* approval, its sections are confirmed by the business and the technical  *)
(* side, and the pilot may start once the current version is handed over.  *)
(***************************************************************************)
EXTENDS UseCaseLifecycle

CONSTANTS
  Sections,         \* sections of a package
  Required,         \* Required[s]: the sides that have to confirm section s
  Administrators,   \* coordinators who may confirm for both sides
  MaxPackages

ASSUME DeliveryAssumption ==
  /\ Required \in [Sections -> SUBSET {"business", "technical"}]
  /\ Administrators \subseteq Coordinators /\ MaxPackages \in Nat

VARIABLES
  packages,     \* packages[v]: the row of version v with its section reviews
  settled       \* what has happened, whatever the rows say now: versions that were
                \* ready and confirmed, versions handed over, statuses reviewed

deliveryVars == <<packages, settled>>
vars == <<lifecycleVars, deliveryVars>>

Sides == {"business", "technical"}
Other(side) == CHOOSE s \in Sides : s # side
SectionStates == {"needs_review", "confirmed", "blocked", "not_applicable"}
Unreviewed == [state |-> "needs_review", business |-> None, technical |-> None]

----------------------------------------------------------------------------
(* Readiness. *)

Complete(review, s) == \A side \in Required[s] : review[side] # None

\* has_role_collapse: one person spoke for both sides.
Collapsed(review, s) ==
  Required[s] = Sides /\ review.business # None /\ review.business = review.technical

SectionReady(review, s) ==
  \/ review.state = "not_applicable"
  \/ review.state = "confirmed" /\ Complete(review, s) /\ ~Collapsed(review, s)

\* No blocking finding, judged on a package and the owner of a use case row.
Ready(package, technical) ==
  /\ package.owner # None
  /\ package.source = technical
  /\ \A s \in Sections : SectionReady(package.sections[s], s)

\* Package and use case as a request has them, now or on its page.
PackagePage(v) == [kind |-> "package", version |-> v, package |-> packages[v],
                    technical |-> useCase.technical]
PagesOf(v) == {PackagePage(v)} \cup {p \in pages : p.kind = "package" /\ p.version = v}

OpenPackage == (\E v \in DOMAIN packages : Load(PackagePage(v))) /\ UNCHANGED deliveryVars

\* recorded_handover_package asks the latest version only.
RecordedHandover == packages # <<>> /\ packages[Len(packages)].status = "handed_over"

----------------------------------------------------------------------------
(* Writing a package: save refuses once the row is handed over. *)

MaySave(v) == packages[v].status # "handed_over"

Withdrawn(status) == IF status = "ready" THEN "draft" ELSE status
Reset(sections, some) == [s \in Sections |-> IF s \in some THEN Unreviewed ELSE sections[s]]

\* Versions that are ready with everything confirmed, in the state reached.
NowSound == {v \in DOMAIN packages' :
               packages'[v].status = "ready" /\ Ready(packages'[v], useCase'.technical)}

Written(row, v) ==
  /\ packages' = [packages EXCEPT ![v] = row]
  /\ UNCHANGED lifecycleVars
  /\ settled' = [settled EXCEPT !.sound = @ \cup NowSound]

LatestApproval == Latest(Final(Approved))

\* create_delivery_package, for the use case row its request has loaded.
CreatePackage(row) ==
  /\ Len(packages) < MaxPackages
  /\ row.decision \in Approved /\ Final(Approved) # {}
  /\ packages' = Append(packages,
       [status |-> "draft", decision |-> LatestApproval, owner |-> row.technical,
        source |-> row.technical, sections |-> [s \in Sections |-> Unreviewed]])
  /\ UNCHANGED <<lifecycleVars, settled>>

\* The package form writes the loaded row and resets the changed sections.
EditPackage(v, page, changed) ==
  /\ page.package.status # "handed_over" /\ MaySave(v)
  /\ Written([packages[v] EXCEPT
        !.status = IF changed = {} THEN page.package.status ELSE Withdrawn(page.package.status),
        !.owner = page.package.owner,
        !.sections = Reset(@, changed)], v)

\* As if a reset kept its name as the state.
DecidedByName(review, s, act, by) ==
  IF act \in Sides THEN [review EXCEPT ![act] = by, !.state = "confirmed"]
  ELSE [review EXCEPT !.state = act]

\* A section review, by a coordinator, who may speak for either side.  It
\* locks the section, but takes the status of the package from its page.
Decided(review, s, act, by) ==
  CASE act \in Sides ->
         LET signed == [review EXCEPT ![act] = by]
         IN [signed EXCEPT !.state = IF Complete(signed, s) THEN "confirmed" ELSE "needs_review"]
    [] act \in {"blocked", "not_applicable"} -> [review EXCEPT !.state = act]
    [] act = "reset" -> Unreviewed

ReviewSection(v, page, s, act, by) ==
  LET review == packages[v].sections[s]
  IN /\ act \in Sides => /\ act \in Required[s]
                         /\ review[Other(act)] = by => by \in Administrators
     /\ page.package.status = "ready" => MaySave(v)
     /\ Written([packages[v] EXCEPT
           !.sections[s] = Decided(review, s, act, by),
           !.status = IF page.package.status = "ready" THEN "draft" ELSE @], v)

\* resolve_technical_owner_source_change locks and reads everything again.
ResolveOwner(v, adopt) ==
  LET p == packages[v]
  IN /\ MaySave(v)
     /\ p.source # useCase.technical
     /\ (IF adopt THEN useCase.technical ELSE p.owner) # None
     /\ Written([p EXCEPT
           !.owner = IF adopt THEN useCase.technical ELSE @,
           !.source = useCase.technical,
           !.sections = Reset(@, {s \in Sections : "technical" \in Required[s]}),
           !.status = Withdrawn(@)], v)

\* mark_package_ready and hand_over_package judge the page they loaded.
MarkReady(v, page) ==
  /\ page.package.status # "handed_over"
  /\ Ready(page.package, page.technical)
  /\ MaySave(v)
  /\ Written([packages[v] EXCEPT !.status = "ready"], v)

HandOverUnchecked(v, page) ==
  /\ page.package.status = "ready"
  /\ MaySave(v)
  /\ packages' = [packages EXCEPT ![v].status = "handed_over"]
  /\ settled' = [settled EXCEPT !.over = @ \cup {v}]
  /\ UNCHANGED lifecycleVars

HandOver(v, page) ==
  /\ page.package.status = "ready"
  /\ Ready(page.package, page.technical)
  /\ MaySave(v)
  /\ packages' = [packages EXCEPT ![v].status = "handed_over"]
  /\ settled' = [settled EXCEPT !.over = @ \cup {v}]
  /\ UNCHANGED lifecycleVars

----------------------------------------------------------------------------
Init == LifecycleInit /\ packages = <<>> /\ settled = [sound |-> {}, over |-> {}, reached |-> {}]

Lifecycle ==
  /\ LifecycleNext(RecordedHandover)
  /\ UNCHANGED packages
  /\ settled' = [settled EXCEPT !.sound = @ \cup NowSound, !.reached = @ \cup {reviewed'}]

PackageStep(v) ==
  \E page \in PagesOf(v) :
    \/ \E changed \in SUBSET Sections : EditPackage(v, page, changed)
    \/ \E s \in Sections, by \in Coordinators,
          act \in Sides \cup {"blocked", "not_applicable", "reset"} :
         ReviewSection(v, page, s, act, by)
    \/ MarkReady(v, page) \/ HandOver(v, page)

Next ==
  \/ Lifecycle
  \/ OpenPackage
  \/ \E row \in Rows : CreatePackage(row)
  \/ \E v \in DOMAIN packages : PackageStep(v) \/ \E adopt \in BOOLEAN : ResolveOwner(v, adopt)

Spec == Init /\ [][Next]_vars

----------------------------------------------------------------------------
(* Properties. *)

\* Type correctness of the packages.
DeliveryTypeOK ==
  /\ LifecycleTypeOK
  /\ \A v \in DOMAIN packages :
       /\ packages[v].status \in {"draft", "ready", "handed_over"}
       /\ packages[v].decision \in DOMAIN decisions
       /\ {packages[v].owner, packages[v].source} \subseteq TechnicalOwners
       /\ \A s \in Sections :
            packages[v].sections[s] \in [state : SectionStates,
              business : Coordinators \cup {None}, technical : Coordinators \cup {None}]

\* A version that is handed over was at some moment marked ready while every
\* section was confirmed by all sides it needs and by different people, even
\* though handover, edits and reviews work from pages that have aged
\* (hand_over_package, blocking_findings, INDEPENDENT_CONFIRMATION_MISSING).
HandedOverWasConfirmed == settled.over \subseteq settled.sound

\* The gates of the organisation, read off the rows and the reviews.
PassedGates ==
  (IF Final(Approved) # {} THEN {"approved"} ELSE {})
    \cup (IF settled.over # {} THEN {"handed_over"} ELSE {})
    \cup (settled.reached \cap {"pilot", "operation", "ended"})

Gates == INSTANCE StageGates WITH passed <- PassedGates

\* No gate is passed before those it rests on, and none is passed back: not
\* even when an old copy of the use case row is written back (COMMAND_RULES,
\* validate_pilot_start, recorded_handover_package, delivery_eligibility).
KeepsGates == Gates!Spec

\* A version that has been handed over does not change any more (README.md:
\* "Übergebene Package-Versionen bleiben unveränderlich").  The code does not
\* keep this: a section of it can still be reviewed.
HandedOverVersionStays ==
  [][\A v \in DOMAIN packages :
       packages[v].status = "handed_over" => packages'[v] = packages[v]]_vars
=============================================================================
