--------------------------- MODULE ProjectionMarkers ---------------------------
(***************************************************************************)
(* What is derived from a passport and compared with it again              *)
(* (report_publication.produce_bounded_passport_projection and             *)
(* nextgen/projection_reconciliation.py).                                  *)
(*                                                                         *)
(* The head of the passport is the number of its entries: an append adds   *)
(* the entry and moves the head in one transaction.  Passports keep the    *)
(* version they are created with, so a marker's version tells nothing.     *)
(***************************************************************************)
EXTENDS Integers, Sequences, FiniteSets

CONSTANTS
    Audiences,
    Sources,            \* publication_sources of the property
    NoAudience, NoSource,
    Workers,
    MaxEntries,         \* max_entries of a projection
    MaxHead,            \* bound on the appends
    MaxWork             \* Init gives it to markerCalls or withholds it

ASSUME MarkerAssumption ==
    /\ NoAudience \notin Audiences /\ NoSource \notin Sources
    /\ MaxEntries \in 1 .. 200 /\ MaxHead \in Nat /\ MaxWork \in Nat

VARIABLES
    head,           \* of the active passport; 0: no entry and no head_hash
    withheld,       \* its entries marked DRAFT, REJECTED or INTERNAL_ONLY
    marker,         \* passport_projection_markers, in the order of insertion
    published,      \* sources with a published result (external)
    approved,       \* sources set to approved
    work,           \* the call each worker has under way
    witness,        \* history: workers in whose call the first marker was not at the head
    markerCalls

markers == <<head, withheld, marker, published, approved>>
markerVars == <<markers, work, witness, markerCalls>>

----------------------------------------------------------------------------
Marker == [audience : Audiences \cup {NoAudience}, head : Nat, count : Nat]

NoWork == [pc |-> "idle", audience |-> NoAudience, source |-> NoSource, head |-> 0,
           shown |-> {}, at |-> 0]

MarkersTypeOK ==
    /\ head \in 0 .. MaxHead /\ withheld \subseteq 1 .. head
    /\ \A n \in DOMAIN marker : marker[n] \in Marker /\ marker[n].head \in 1 .. head
    /\ published \subseteq Sources /\ approved \subseteq Sources
    /\ \A w \in Workers : work[w].head \in 0 .. head /\ work[w].at \in 0 .. Len(marker)

MarkersInit ==
    /\ head = 0 /\ withheld = {}
    /\ marker = <<>>
    /\ published = {} /\ approved = {}
    /\ work = [w \in Workers |-> NoWork]
    /\ witness = {}

----------------------------------------------------------------------------
Working(w, locals) ==
    /\ work[w].pc = "idle"
    /\ markerCalls > 0
    /\ markerCalls' = markerCalls - 1
    /\ work' = [work EXCEPT ![w] = locals]
    /\ UNCHANGED markers

Doing(w, step) == work[w].pc = step /\ UNCHANGED markerCalls

Advance(w, step) == work' = [work EXCEPT ![w].pc = step]

Done(w) == work' = [work EXCEPT ![w] = NoWork]

\* The entries a projection reads.
Newest == {e \in 1 .. head : head - e < MaxEntries}

\* find_one without a sort: the marker that was inserted first.
FirstMarker == IF marker = <<>> THEN 0 ELSE 1

----------------------------------------------------------------------------
(* append_entry, and the results of publications (external) *)

\* An entry comes with its release mark, or with none, and keeps it.
AppendEntry ==
    /\ head < MaxHead
    /\ markerCalls > 0 \/ \E w \in Workers : work[w].pc # "idle"
    /\ head' = head + 1
    /\ withheld' \in {withheld, withheld \cup {head + 1}}
    /\ UNCHANGED <<marker, published, approved, work, markerCalls>>

PublishSource(x) ==
    /\ markerCalls > 0
    /\ published' = published \cup {x}
    /\ UNCHANGED <<head, withheld, marker, approved, work, markerCalls>>

----------------------------------------------------------------------------
(* produce_bounded_passport_projection *)

BeginProjection(w, a) ==
    /\ head > 0
    /\ Working(w, [NoWork EXCEPT !.pc = "entries", !.audience = a, !.head = head])

\* Mutant of ReadEntries: the oldest entries are read.
ReadOldest(w) ==
    /\ Doing(w, "entries")
    /\ work' = [work EXCEPT ![w].pc = "lookup",
                            ![w].shown = {e \in 1 .. head : e <= MaxEntries} \ withheld]
    /\ UNCHANGED markers

\* The entries are read from the newest, and there may be newer ones than the head;
\* those that are withheld count to the limit and are skipped.
ReadEntries(w) ==
    /\ Doing(w, "entries")
    /\ work' = [work EXCEPT ![w].pc = "lookup", ![w].shown = Newest \ withheld]
    /\ UNCHANGED markers

Own(w) == {n \in DOMAIN marker : marker[n].audience = work[w].audience}

FindMarker(w) ==
    /\ Doing(w, "lookup")
    /\ \/ Own(w) = {} /\ Advance(w, "mark")
       \/ \E n \in Own(w) :
            /\ \A k \in Own(w) : n <= k
            /\ IF marker[n].head = work[w].head /\ marker[n].count = Cardinality(work[w].shown) THEN Done(w)
               ELSE work' = [work EXCEPT ![w].pc = "mark", ![w].at = n]
    /\ UNCHANGED markers

SaveMarker(w) ==
    /\ Doing(w, "mark")
    /\ LET new == [audience |-> work[w].audience, head |-> work[w].head,
                   count |-> Cardinality(work[w].shown)] IN
       marker' = IF work[w].at = 0 THEN Append(marker, new)
                 ELSE [marker EXCEPT ![work[w].at] = new]
    /\ Done(w)
    /\ UNCHANGED <<head, withheld, published, approved>>

----------------------------------------------------------------------------
(* reconcile_property and repair_projection_marker *)

BeginReconcile(w) ==
    /\ head > 0
    /\ Working(w, [NoWork EXCEPT !.pc = "compare", !.head = head])

Verdict(w) ==
    IF FirstMarker = 0 THEN "insufficient_data"
    ELSE IF marker[1].head = work[w].head THEN "matched" ELSE "drift_detected"

Compare(w) ==
    /\ Doing(w, "compare")
    /\ Advance(w, Verdict(w))
    /\ UNCHANGED markers

Report(w) ==
    /\ \E verdict \in {"matched", "drift_detected", "insufficient_data"} : Doing(w, verdict)
    /\ Done(w)
    /\ UNCHANGED markers

BeginRepair(w) ==
    /\ head > 0
    /\ Working(w, [NoWork EXCEPT !.pc = "inspect", !.head = head])

Inspect(w) ==
    /\ Doing(w, "inspect")
    /\ IF Verdict(w) = "matched" THEN Done(w)
       ELSE work' = [work EXCEPT ![w].pc = "repair", ![w].at = FirstMarker]
    /\ UNCHANGED markers

\* Only the hash of the first marker is set; its count stays.
Repair(w) ==
    /\ Doing(w, "repair")
    /\ marker' = IF work[w].at = 0
                 THEN Append(marker, [audience |-> NoAudience, head |-> work[w].head, count |-> 0])
                 ELSE [marker EXCEPT ![1].head = work[w].head]
    /\ Done(w)
    /\ UNCHANGED <<head, withheld, published, approved>>

----------------------------------------------------------------------------
(* reconcile_source_publication_state *)

BeginSource(w, x) == Working(w, [NoWork EXCEPT !.pc = "result", !.source = x])

\* Mutant of FindResult: the source is approved without one.
FindNoResult(w) ==
    /\ Doing(w, "result")
    /\ Advance(w, "approve")
    /\ UNCHANGED markers

FindResult(w) ==
    /\ Doing(w, "result")
    /\ IF work[w].source \in published \ approved THEN Advance(w, "approve") ELSE Done(w)
    /\ UNCHANGED markers

ApproveSource(w) ==
    /\ Doing(w, "approve")
    /\ approved' = approved \cup {work[w].source}
    /\ Done(w)
    /\ UNCHANGED <<head, withheld, marker, published>>

----------------------------------------------------------------------------
\* The first marker is missing or off the head.
Drifting == head > 0 /\ (marker = <<>> \/ marker[1].head # head)

WorkStep(w) ==
    \/ \E a \in Audiences : BeginProjection(w, a)
    \/ ReadEntries(w)    \/ FindMarker(w) \/ SaveMarker(w)
    \/ BeginReconcile(w) \/ Compare(w)    \/ Report(w)
    \/ BeginRepair(w)    \/ Inspect(w)    \/ Repair(w)
    \/ \E x \in Sources : BeginSource(w, x)
    \/ FindResult(w)     \/ ApproveSource(w)

MarkersNext ==
    /\ \/ AppendEntry
       \/ \E x \in Sources : PublishSource(x)
       \/ \E w \in Workers : WorkStep(w)
    /\ witness' = {w \in Workers : work'[w].pc # "idle" /\ (w \in witness \/ Drifting \/ Drifting')}

MarkersSpec == MarkersInit /\ markerCalls \in Nat /\ [][MarkersNext]_markerVars

----------------------------------------------------------------------------
(* Properties *)

\* Nothing withheld is shown, and an entry up to the head that is named is left out only if
\* it is withheld or has MaxEntries newer ones.
Complete(l) ==
    /\ l.shown \cap withheld = {}
    /\ \A e \in 1 .. l.head : e \in l.shown \cup withheld \/ head - e >= MaxEntries

\* A projection shows the released entries of the head it names, up to its limit, however
\* appends fall between the two reads.
ProjectionIsFull ==
    \A w \in Workers : work[w].pc \in {"lookup", "mark"} => Complete(work[w])

\* A drift is only reported if at some moment of the call the first marker was
\* missing or behind.
DriftWasReal == \A w \in Workers : work[w].pc = "drift_detected" => w \in witness

\* A source is never approved by reconciliation without a published result.
ApprovedIsPublished == approved \subseteq published

\* A match is only reported while the marker is at the head.
MatchedIsCurrent == \A w \in Workers : work[w].pc = "matched" => marker[1].head = head
=============================================================================
