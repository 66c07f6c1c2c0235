----------------------------- MODULE HabitatView -----------------------------
(***************************************************************************)
(* The homeowner's view of a property (nextgen/habitat): a pure function   *)
(* of a bag of documents the caller has read, each of which speaks of its  *)
(* own state in words of its own.  A document that breaks a display rule   *)
(* or fails the validation of its schema refuses the whole view, not only  *)
(* its own part.  The reports of the bag are made by                       *)
(* project_habitat_safe_report_fields of report_publication.py.            *)
(*                                                                         *)
(* "" is a field that is absent.                                           *)
(***************************************************************************)
EXTENDS Integers, FiniteSets

CONSTANTS
    EstimateWords,      \* what the availability and status of an estimate may say
    OpportunityWords,   \* what the status of an opportunity may say
    FindingWords,
    NoDocument,
    MaxViews

ASSUME HabitatAssumption ==
    /\ "" \in EstimateWords /\ "" \in OpportunityWords
    /\ MaxViews \in Nat

VARIABLES bag, view, viewsLeft

habitatVars == <<bag, view, viewsLeft>>

----------------------------------------------------------------------------
(* Reports: the fields the producer lets out, and what the consumer makes of them *)

PackageStates == {"PROPOSED", "INPUTS_VALIDATED", "RENDERING", "RENDERED", "UNDER_REVIEW",
                  "APPROVED_FOR_DELIVERY", "DELIVERING", "DELIVERED", "FAILED", "SUPERSEDED"}

Released == {"APPROVED_FOR_DELIVERY", "DELIVERING", "DELIVERED"}

ReportFields == [publication : PackageStates \cup {"", "PUBLISHED", "CUSTOMER_RELEASABLE"},
           \* the field read next, and the one after it
           delivery : Released \cup {"", "FAILED", "SUPERSEDED", "NOT_DELIVERED"},
           superseded : BOOLEAN,
           flag : {"", "yes", "no"},    \* approved_for_delivery and its two synonyms
           named : BOOLEAN]             \* it has an id and a template

ASSUME DocumentAssumption == NoDocument \notin ReportFields

SafeFields(state) ==
    [publication |-> state,
     delivery |-> IF state \in Released \cup {"FAILED", "SUPERSEDED"} THEN state
                  ELSE "NOT_DELIVERED",
     superseded |-> state = "SUPERSEDED",
     flag |-> "", named |-> TRUE]

\* _report_status_token
Token(report) == IF report.publication # "" THEN report.publication ELSE report.delivery

\* A word nobody knows and a bare flag release nothing.
ApprovedForDelivery(report) ==
    /\ ~report.superseded
    /\ \/ Token(report) \in Released \cup {"CUSTOMER_RELEASABLE"} /\ report.flag # "no"
       \/ Token(report) = "PUBLISHED" /\ report.flag = "yes"

ShowsReport(report) == ApprovedForDelivery(report) /\ report.named

----------------------------------------------------------------------------
(* Estimates *)

Estimate == [availability : EstimateWords, status : EstimateWords, count : {-1, 0, 3}]

Unsettled == {"unknown", "unavailable", "awaiting_review"}

Claims == {"approved", "APPROVED", "published", "available", "passport_committed", "accepted"}

\* The availability a document states wins over its status.
Availability(estimate) ==
    LET said == IF estimate.availability # "" THEN estimate.availability ELSE estimate.status
    IN  IF said \in {"approved", "published", "ready", "available"} THEN "available"
        ELSE IF said \in Unsettled THEN said ELSE "unknown"

\* The state of knowledge shown beside a status.
Knowledge(status) == IF status \in Unsettled THEN status ELSE "known"

\* unknown_is_not_zero; -1 is a count that is absent.
ZeroUnknown(count, knowledge) == knowledge \in Unsettled /\ count = 0

\* Mutant of AwaitingApproved: only the claims of a document that awaits review are refused.
ClaimsWhileAwaiting(status, knowledge) == knowledge = "awaiting_review" /\ status \in Claims

\* awaiting_is_not_approved
AwaitingApproved(status, knowledge) ==
    \/ knowledge = "awaiting_review" /\ status \in Claims
    \/ knowledge = "known" /\ status \in {"awaiting_review", "AWAITING_REVIEW"}

RefusesEstimate(estimate) ==
    LET knowledge == Knowledge(Availability(estimate))
    IN  ZeroUnknown(estimate.count, knowledge) \/ AwaitingApproved(estimate.status, knowledge)

----------------------------------------------------------------------------
(* Opportunities *)

ContractWords == {"contracted", "paid", "invoiced", "payment_pending", "under_contract"}

OpportunityStatuses == Unsettled \cup {"proposed", "shared", "homeowner_reviewing", "accepted",
                                       "declined"}

Opportunity == [status : OpportunityWords, backed : BOOLEAN]

\* A contract or payment nothing in the source supports is shown as shared, awaiting review.
OpportunityView(opportunity) ==
    IF opportunity.status \in ContractWords
      THEN IF opportunity.backed THEN [status |-> "accepted", knowledge |-> "known"]
           ELSE [status |-> "shared", knowledge |-> "awaiting_review"]
    ELSE IF opportunity.status \in OpportunityStatuses
      THEN [status |-> opportunity.status, knowledge |-> Knowledge(opportunity.status)]
    ELSE [status |-> "unknown", knowledge |-> "unknown"]

----------------------------------------------------------------------------
(* The reality model: existing condition, proposed work, completed as built *)

Layers == {"existing", "proposed", "completed_as_built"}

Reality == [scanned : BOOLEAN, layers : SUBSET Layers, superseded : BOOLEAN]

LayerState(reality, layer) ==
    IF reality.superseded THEN "superseded"
    ELSE IF layer \in reality.layers THEN layer
    ELSE IF reality.scanned THEN "scan_recorded" ELSE "no_scan"

Authoritative(reality, layer) == LayerState(reality, layer) \in Layers

\* derive_overall_reference_state
OverallState(reality) ==
    IF reality.superseded THEN "superseded"
    ELSE IF "completed_as_built" \in reality.layers THEN "completed_as_built"
    ELSE IF "proposed" \in reality.layers THEN "proposed"
    ELSE IF "existing" \in reality.layers THEN "existing"
    ELSE IF reality.scanned THEN "scan_recorded" ELSE "no_scan"

PropertyKnowledge(reality) ==
    CASE OverallState(reality) \in {"no_scan", "superseded"} -> "unavailable"
      [] OverallState(reality) = "scan_recorded" -> "awaiting_review"
      [] OverallState(reality) \in Layers -> "known"

----------------------------------------------------------------------------
(* HabitatReadModelConsumer.build *)

Bag == [finding : FindingWords, estimate : Estimate \cup {NoDocument},
        report : ReportFields \cup {NoDocument}, opportunity : Opportunity \cup {NoDocument},
        reality : Reality]

NothingHeld == [finding |-> "", estimate |-> NoDocument, report |-> NoDocument,
             opportunity |-> NoDocument,
             reality |-> [scanned |-> FALSE, layers |-> {}, superseded |-> FALSE]]

Refused(b) ==
    \/ b.estimate # NoDocument /\ RefusesEstimate(b.estimate)
    \/ /\ b.opportunity # NoDocument
       /\ LET shown == OpportunityView(b.opportunity)
          IN  AwaitingApproved(shown.status, shown.knowledge)

ViewOf(b) ==
    [refused |-> Refused(b),
     finding |-> b.finding \in {"APPROVED", "RESOLVED"},
     estimate |-> IF b.estimate = NoDocument THEN "unavailable" ELSE Availability(b.estimate),
     count |-> IF b.estimate = NoDocument THEN -1 ELSE b.estimate.count,
     report |-> b.report # NoDocument /\ ShowsReport(b.report),
     opportunity |-> IF b.opportunity = NoDocument THEN NoDocument
                     ELSE OpportunityView(b.opportunity),
     property |-> PropertyKnowledge(b.reality)]

HabitatInit == bag = NothingHeld /\ view = NoDocument

BuildView(b) ==
    /\ bag' = b
    /\ view' = ViewOf(b)

\* Bags in which one document, or the estimate and a report, are what they may be.
HabitatNext ==
    /\ viewsLeft > 0 /\ viewsLeft' = viewsLeft - 1
    /\ \/ \E word \in FindingWords, r \in Reality :
            BuildView([NothingHeld EXCEPT !.finding = word, !.reality = r])
       \/ \E e \in Estimate, state \in PackageStates :
            BuildView([NothingHeld EXCEPT !.estimate = e, !.report = SafeFields(state)])
       \/ \E r \in ReportFields : BuildView([NothingHeld EXCEPT !.report = r])
       \/ \E o \in Opportunity : BuildView([NothingHeld EXCEPT !.opportunity = o])

HabitatSpec == HabitatInit /\ [][HabitatNext]_habitatVars

----------------------------------------------------------------------------
(* Properties *)

ViewShown == view # NoDocument /\ ~view.refused

\* What a homeowner is told for settled is settled at its source: an estimate shown as
\* available does not say that it awaits review, a count shown is never the zero of something
\* unknown, a contract or payment shown as accepted is backed, a property is known only by a
\* layer that has authority, and a report made by the publication pipeline is shown exactly
\* when its package is released, which the two modules decide by tables of their own.
HomeownerSeesSettled ==
    ViewShown =>
      LET e == bag.estimate
          o == bag.opportunity
          r == bag.report IN
      /\ view.estimate = "available" =>
           {e.status, e.availability} \cap {"awaiting_review", "AWAITING_REVIEW"} = {}
      /\ view.count = 0 => view.estimate = "available"
      /\ view.opportunity # NoDocument /\ view.opportunity.status = "accepted" =>
           o.backed \/ o.status = "accepted"
      /\ view.property = "known" =>
           /\ ~bag.reality.superseded
           /\ \E layer \in Layers : Authoritative(bag.reality, layer)
      /\ view.report => r.publication \notin PackageStates \ Released /\ ~r.superseded
      /\ \A state \in Released : r = SafeFields(state) => view.report
=============================================================================
