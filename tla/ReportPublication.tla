--------------------------- MODULE ReportPublication ---------------------------
(***************************************************************************)
(* The life of report packages (nextgen/report_publication.py).            *)
(*                                                                         *)
(* Every call reads a package, validates what it read and writes by the    *)
(* package's id alone.  The module has no caller in the repository but its *)
(* tests: calls come in any order, and two of them overlap.                *)
(***************************************************************************)
EXTENDS Integers, Sequences, FiniteSets

CONSTANTS
    PackageKeys,        \* idempotency keys of packages: one for each cache identity
    Kinds,              \* kinds of timeline entries
    Callers,
    NoKey, NoKind,
    MaxCalls            \* Init gives it to packageCalls or withholds it

ASSUME ReportAssumption == NoKey \notin PackageKeys /\ NoKind \notin Kinds /\ MaxCalls \in Nat

VARIABLES
    package,        \* report_publications, in the order of insertion
    request,        \* outbox events REPORT_DELIVERY_REQUESTED: <<package, checksum>>
    delivered,      \* outbox events REPORT_DELIVERED, by package
    entry,          \* property_timeline
    rendered,       \* how many renderings there were: their checksums
    call,           \* the call each caller has under way
    packageCalls    \* how many more may begin

reports == <<package, request, delivered, entry, rendered>>
reportVars == <<reports, call, packageCalls>>

----------------------------------------------------------------------------
States == {"PROPOSED", "INPUTS_VALIDATED", "RENDERING", "RENDERED", "UNDER_REVIEW",
           "APPROVED_FOR_DELIVERY", "DELIVERING", "DELIVERED", "FAILED", "SUPERSEDED"}

\* _ALLOWED_TRANSITIONS
Allowed ==
    [s \in States |->
        CASE s = "PROPOSED"              -> {"INPUTS_VALIDATED", "FAILED", "SUPERSEDED"}
          [] s = "INPUTS_VALIDATED"      -> {"RENDERING", "FAILED", "SUPERSEDED"}
          [] s = "RENDERING"             -> {"RENDERED", "FAILED"}
          [] s = "RENDERED"              -> {"UNDER_REVIEW", "FAILED", "SUPERSEDED"}
          [] s = "UNDER_REVIEW"          -> {"APPROVED_FOR_DELIVERY", "RENDERING", "FAILED",
                                             "SUPERSEDED"}
          [] s = "APPROVED_FOR_DELIVERY" -> {"DELIVERING", "FAILED", "SUPERSEDED"}
          [] s = "DELIVERING"            -> {"DELIVERED", "FAILED"}
          [] s = "DELIVERED"             -> {"SUPERSEDED"}
          [] s = "FAILED"                -> {"PROPOSED", "SUPERSEDED"}
          [] s = "SUPERSEDED"            -> {}]

\* allowed_states of the timeline
Eligible == States \ {"PROPOSED", "RENDERING"}

\* The states enqueue_report_delivery accepts.
Deliverable == {"APPROVED_FOR_DELIVERY", "DELIVERING"}

\* delivery_status of project_habitat_safe_report_fields
Shown(state) ==
    IF state \in {"DELIVERED", "DELIVERING", "APPROVED_FOR_DELIVERY", "FAILED", "SUPERSEDED"}
    THEN state ELSE "NOT_DELIVERED"

\* The last three are history: the states a package was in, the checksums it had while it
\* was under review, and whether a call went on with it after another had moved it.
Package == [key : PackageKeys, state : States, checksum : Nat, reached : SUBSET States,
            reviewed : SUBSET Nat, raced : BOOLEAN]

Entry == [package : Nat \ {0}, kind : Kinds, state : Eligible]

NoCall == [pc |-> "idle", package |-> 0, key |-> NoKey, kind |-> NoKind, state |-> "PROPOSED",
           target |-> "PROPOSED", checksum |-> 0, then |-> "idle"]

PackagesTypeOK ==
    /\ \A p \in DOMAIN package : package[p] \in Package
    /\ request \subseteq (1 .. Len(package)) \X (0 .. rendered)
    /\ delivered \subseteq DOMAIN package
    /\ \A n \in DOMAIN entry : entry[n] \in Entry /\ entry[n].package \in DOMAIN package
    /\ \A c \in Callers : call[c].package \in 0 .. Len(package)

PackagesInit ==
    /\ package = <<>>
    /\ request = {} /\ delivered = {}
    /\ entry = <<>>
    /\ rendered = 0
    /\ call = [c \in Callers |-> NoCall]

----------------------------------------------------------------------------
Started(c, locals) ==
    /\ call[c].pc = "idle"
    /\ packageCalls > 0
    /\ packageCalls' = packageCalls - 1
    /\ call' = [call EXCEPT ![c] = locals]

At(c, from) == call[c].pc = from /\ UNCHANGED packageCalls

Ended(c) == call' = [call EXCEPT ![c] = NoCall]

Goto(c, to) == call' = [call EXCEPT ![c].pc = to]

Read(p) == [NoCall EXCEPT !.package = p, !.state = package[p].state,
                          !.checksum = package[p].checksum]

----------------------------------------------------------------------------
(* propose_report_publication: the key is looked for, and then inserted *)

BeginPropose(c, key) ==
    /\ \A p \in DOMAIN package : package[p].key # key
    /\ Started(c, [NoCall EXCEPT !.pc = "insert", !.key = key])
    /\ UNCHANGED reports

InsertPackage(c) ==
    /\ At(c, "insert")
    /\ package' = Append(package, [key |-> call[c].key, state |-> "PROPOSED", checksum |-> 0,
                                   reached |-> {"PROPOSED"}, reviewed |-> {},
                                   raced |-> FALSE])
    /\ Ended(c)
    /\ UNCHANGED <<request, delivered, entry, rendered>>

----------------------------------------------------------------------------
(* transition_report_publication: a rendering brings its checksum with it *)

BeginTransition(c, p, target) ==
    /\ target \in Allowed[package[p].state]
    /\ rendered' = IF target = "RENDERED" THEN rendered + 1 ELSE rendered
    /\ Started(c, [Read(p) EXCEPT !.pc = "write", !.target = target,
                                  !.checksum = IF target = "RENDERED" THEN rendered + 1 ELSE 0])
    /\ UNCHANGED <<package, request, delivered, entry>>

\* The package written is in the state that was validated, or another call has moved it.
WriteState(c) ==
    /\ At(c, "write")
    /\ LET p == call[c].package
           to == call[c].target IN
       package' = [package EXCEPT
                     ![p].state = to, ![p].reached = @ \cup {to},
                     ![p].checksum = IF to = "RENDERED" THEN call[c].checksum ELSE @,
                     ![p].reviewed = IF to = "UNDER_REVIEW" THEN @ \cup {package[p].checksum}
                                                            ELSE @,
                     ![p].raced = @ \/ package[p].state # call[c].state]
    /\ IF call[c].then = "idle" THEN Ended(c) ELSE Goto(c, "refresh")
    /\ UNCHANGED <<request, delivered, entry, rendered>>

Refresh(c) ==
    /\ At(c, "refresh")
    /\ LET p == call[c].package IN
       /\ call' = [call EXCEPT ![c].pc = call[c].then, ![c].checksum = package[p].checksum]
       /\ package' = [package EXCEPT ![p].raced = @ \/ package[p].state # call[c].target]
    /\ UNCHANGED <<request, delivered, entry, rendered>>

----------------------------------------------------------------------------
(* enqueue_report_delivery *)

\* Mutant of BeginEnqueue: the state of the package is not asked.
BeginEnqueueAny(c, p) ==
    /\ Started(c, [Read(p) EXCEPT !.pc = "request"])
    /\ UNCHANGED reports

BeginEnqueue(c, p) ==
    /\ package[p].state \in Deliverable
    /\ Started(c, IF package[p].state = "DELIVERING"
                  THEN [Read(p) EXCEPT !.pc = "request"]
                  ELSE [Read(p) EXCEPT !.pc = "move", !.target = "DELIVERING", !.then = "request"])
    /\ UNCHANGED reports

\* The transition reads the package again.
Move(c) ==
    /\ At(c, "move")
    /\ LET state == package[call[c].package].state IN
       \/ /\ "DELIVERING" \in Allowed[state]
          /\ call' = [call EXCEPT ![c].pc = "write", ![c].state = state]
       \/ state = "DELIVERING" /\ Goto(c, "refresh")
       \/ state # "DELIVERING" /\ "DELIVERING" \notin Allowed[state] /\ Ended(c)
    /\ UNCHANGED reports

\* One event for each package: a later request finds it and emits nothing.
Request(c) ==
    /\ At(c, "request")
    /\ LET p == call[c].package IN
       request' = IF \E r \in request : r[1] = p THEN request
                  ELSE request \cup {<<p, call[c].checksum>>}
    /\ Ended(c)
    /\ UNCHANGED <<package, delivered, entry, rendered>>

----------------------------------------------------------------------------
(* mark_report_delivered, as a wired consumer calls it *)

BeginDelivered(c, p) ==
    /\ \/ /\ package[p].state = "DELIVERING"
          /\ Started(c, [Read(p) EXCEPT !.pc = "write", !.target = "DELIVERED",
                                        !.then = "announce"])
       \/ /\ package[p].state = "DELIVERED"
          /\ Started(c, [Read(p) EXCEPT !.pc = "announce"])
    /\ UNCHANGED reports

Announce(c) ==
    /\ At(c, "announce")
    /\ delivered' = delivered \cup {call[c].package}
    /\ Ended(c)
    /\ UNCHANGED <<package, request, entry, rendered>>

----------------------------------------------------------------------------
(* produce_report_timeline_entry *)

BeginTimeline(c, p, kind) ==
    /\ package[p].state \in Eligible
    /\ Started(c, [Read(p) EXCEPT !.pc = "lookup", !.kind = kind])
    /\ UNCHANGED reports

Lookup(c) ==
    /\ At(c, "lookup")
    /\ IF \E n \in DOMAIN entry : entry[n].package = call[c].package /\ entry[n].kind = call[c].kind
       THEN Ended(c) ELSE Goto(c, "enter")
    /\ UNCHANGED reports

InsertEntry(c) ==
    /\ At(c, "enter")
    /\ entry' = Append(entry, [package |-> call[c].package, kind |-> call[c].kind,
                               state |-> call[c].state])
    /\ Ended(c)
    /\ UNCHANGED <<package, request, delivered, rendered>>

\* The process dies in the middle of a call.
Die(c) ==
    /\ call[c].pc # "idle"
    /\ Ended(c)
    /\ UNCHANGED <<reports, packageCalls>>

----------------------------------------------------------------------------
Call(c) ==
    \/ \E key \in PackageKeys : BeginPropose(c, key)
    \/ \E p \in DOMAIN package :
          \/ \E target \in States : BeginTransition(c, p, target)
          \/ BeginEnqueue(c, p)
          \/ BeginDelivered(c, p)
          \/ \E kind \in Kinds : BeginTimeline(c, p, kind)

Proceed(c) ==
    \/ InsertPackage(c) \/ WriteState(c) \/ Refresh(c) \/ Move(c) \/ Request(c)
    \/ Announce(c)      \/ Lookup(c)     \/ InsertEntry(c) \/ Die(c)

PackagesNext == \E c \in Callers : Call(c) \/ Proceed(c)

PackagesSpec ==
    PackagesInit /\ packageCalls \in {0, MaxCalls} /\ [][PackagesNext]_reportVars

----------------------------------------------------------------------------
(* Properties *)

Sent(p) ==
    \/ Shown(package[p].state) \in {"APPROVED_FOR_DELIVERY", "DELIVERING", "DELIVERED"}
    \/ p \in delivered
    \/ \E r \in request : r[1] = p

\* Whatever calls overlap, a package that is shown as on its way or delivered, whose
\* delivery was requested or announced, was once rendered, reviewed and approved.
DeliveredWasReviewed ==
    \A p \in DOMAIN package :
        Sent(p) => {"INPUTS_VALIDATED", "RENDERING", "RENDERED", "UNDER_REVIEW",
                    "APPROVED_FOR_DELIVERY"} \subseteq package[p].reached

\* Unless a call went on with a package that another had moved, what is approved, being
\* delivered or delivered, and what a delivery was requested of, is content that was reviewed.
ContentWasReviewed ==
    \A p \in DOMAIN package : ~package[p].raced =>
        /\ package[p].state \in {"APPROVED_FOR_DELIVERY", "DELIVERING", "DELIVERED"}
               => package[p].checksum \in package[p].reviewed
        /\ \A r \in request : r[1] = p => r[2] \in package[p].reviewed

\* An entry of the timeline names a state its package was in when the call read it, and one
\* that may be told, though the package has moved on since.
TimelineIsTrue ==
    \A n \in DOMAIN entry :
        entry[n].state \in package[entry[n].package].reached \cap Eligible

\* What is sent went through its review once, with this content if no call raced, and the
\* timeline tells of each package a state it had.
HistoryIsTrue == DeliveredWasReviewed /\ ContentWasReviewed /\ TimelineIsTrue

\* An entry is only made for a package that was validated or failed: "never for raw PROPOSED
\* without validation" (the comment in produce_report_timeline_entry).
TimelineIsValidated ==
    \A n \in DOMAIN entry :
        package[entry[n].package].reached \cap {"INPUTS_VALIDATED", "FAILED"} # {}

\* A delivery request names the content that is being delivered.
RequestNamesContent ==
    \A r \in request : package[r[1]].state = "DELIVERING" => package[r[1]].checksum = r[2]

\* Every step of a package is one of the table ("transitions enforced below").
TransitionsEnforced ==
    [][\A p \in DOMAIN package :
          package'[p].state \in {package[p].state} \cup Allowed[package[p].state]]_package

\* There is one package for each key.
OnePackagePerKey ==
    \A p, q \in DOMAIN package : package[p].key = package[q].key => p = q
=============================================================================
