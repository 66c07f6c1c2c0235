------------------------- MODULE GovernedPublication -------------------------
(***************************************************************************)
(* Publication to the passport as its callers see it, with the two things  *)
(* LedgerChain leaves out: the rows of idempotency keys and the queue of   *)
(* conflicts (nextgen/governed_publish_service.py, passport_conflicts.py,  *)
(* and the part of passport_service.append_entry that touches them).       *)
(***************************************************************************)
EXTENDS Integers, Sequences

CONSTANTS
    Objects,        \* intelligence objects of one property
    RebaseKeys,     \* idempotency keys operators make up for a rebase
    Findings,       \* approved findings, which are published to the same passport
    Users,
    NoToken,        \* the expected head hash of an empty passport: None
    MaxReviews      \* bound on the attempts at a review, each with its own payload

ASSUME PublicationAssumption ==
    /\ Objects \cap (RebaseKeys \cup Findings) = {} /\ RebaseKeys \cap Findings = {}
    /\ NoToken \notin Nat
    /\ Users # {}
    /\ MaxReviews \in Nat

VARIABLES
    log,        \* the passport ledger
    row,        \* passport_idempotency
    conflict    \* passport_conflicts, in the order of creation

publicationVars == <<log, row, conflict>>

----------------------------------------------------------------------------
\* intelligence.publish:{id}, finding.publish:{id}, or what the operator sends.
Keys == Objects \cup Findings \cup RebaseKeys

\* What is published: for an approval `content` is the attempt, whose signature
\* is in the payload; for a rebase it is 0 and `rebaseOf` is the conflict.
Request == [key : Keys, source : Objects \cup Findings, content : 0 .. MaxReviews, rebaseOf : Nat,
            expRev : Nat, expHead : Nat \cup {NoToken}, actor : Users]

Ledger == INSTANCE LedgerChain WITH Requests <- Request

\* The fingerprint leaves out the key and the actor.
Fingerprint(q) == <<q.source, q.content, q.rebaseOf, q.expRev, q.expHead>>

NoRow == [status |-> "NONE", print |-> <<>>, entry |-> 0]

Row(status, q, n) == [status |-> status, print |-> Fingerprint(q), entry |-> n]

Reasons == {"STALE_EXPECTED_STATE", "CAS_RACE_STALE"}
Active == {"OPEN", "UNDER_REVIEW", "REBASE_APPROVED"}
Terminal == {"REBASED", "REJECTED"}     \* no handler sets SUPERSEDED or RESOLVED

\* An attempt that was refused; of a lost race the actual head is not recorded.
Attempt(q, reason, actual) ==
    [source |-> q.source, key |-> q.key, print |-> Fingerprint(q), reason |-> reason,
     actual |-> IF reason = "CAS_RACE_STALE" THEN NoToken ELSE actual]

\* conflict_fingerprint: without the key.
ConflictPrint(a) == <<a.source, a.print, a.reason, a.actual>>

Conflict(a) == [attempt |-> a, status |-> "OPEN", replacement |-> 0]

PublicationInit ==
    /\ Ledger!ChainInit
    /\ row = [k \in Keys |-> NoRow]
    /\ conflict = <<>>

PublicationTypeOK ==
    /\ log \in Seq(Request)
    /\ \A k \in Keys : row[k].status \in {"NONE", "COMMITTED", "FAILED"} /\ row[k].entry \in Nat
    /\ \A c \in DOMAIN conflict :
          /\ conflict[c].status \in Active \cup Terminal
          /\ conflict[c].attempt.source \in Objects
          /\ conflict[c].attempt.reason \in Reasons
          /\ conflict[c].replacement \in Nat

----------------------------------------------------------------------------
(* append_entry, up to its transaction: the answers that need no commit *)

KeyReused(q) == row[q.key].status # "NONE" /\ row[q.key].print # Fingerprint(q)

AlreadyCommitted(q) ==
    row[q.key].status = "COMMITTED" /\ row[q.key].print = Fingerprint(q)

Stale(q) ==
    /\ ~KeyReused(q)
    /\ ~AlreadyCommitted(q)
    /\ ~Ledger!Names(q, Len(log))

Current(q) ==
    /\ ~KeyReused(q)
    /\ ~AlreadyCommitted(q)
    /\ Ledger!Names(q, Len(log))

\* The row of the key is inserted, never updated: a FAILED row refuses the commit.
KeyTaken(q, seen) == seen = Len(log) /\ row[q.key].status # "NONE"

\* The transaction, under the head the call has seen.
CommitEntry(q, seen) ==
    /\ seen = Len(log)
    /\ ~KeyTaken(q, seen)
    /\ Ledger!Extend(q)
    /\ row' = [row EXCEPT ![q.key] = Row("COMMITTED", q, Len(log) + 1)]
    /\ UNCHANGED conflict

\* Another source is published, as FindingReview has it.
PublishFinding(f) ==
    /\ Ledger!Extend([key |-> f, source |-> f, content |-> 0, rebaseOf |-> 0,
                      expRev |-> Len(log), expHead |-> NoToken,
                      actor |-> CHOOSE u \in Users : TRUE])
    /\ UNCHANGED <<row, conflict>>

LostRace(seen) == seen # Len(log)

\* Both exception handlers of append_entry write the row, whatever it holds.
MarkFailed(q) ==
    row' = [row EXCEPT ![q.key] = [@ EXCEPT !.status = "FAILED", !.print = Fingerprint(q)]]

\* The transaction aborts, or commits and its answer is lost.  The handler of the
\* exception cannot tell; its own write may fail too.
FailEntry(q, seen) ==
    \/ MarkFailed(q) /\ UNCHANGED <<log, conflict>>
    \/ UNCHANGED publicationVars
    \/ /\ seen = Len(log) /\ ~KeyTaken(q, seen)
       /\ Ledger!Extend(q) /\ MarkFailed(q) /\ UNCHANGED conflict
    \/ CommitEntry(q, seen)

----------------------------------------------------------------------------
(* create_conflict_record and mark_conflict_status *)

ActiveFor(a) ==
    {c \in DOMAIN conflict : /\ conflict[c].status \in Active
                             /\ ConflictPrint(conflict[c].attempt) = ConflictPrint(a)}

\* insert_one, where the index uniq_active_conflict_fingerprint allows it.
OpenConflict(a) ==
    /\ ActiveFor(a) = {}
    /\ conflict' = Append(conflict, Conflict(a))

\* The same index can refuse an update that reopens a closed conflict.
MayMark(c, status) ==
    status \in Active => ActiveFor(conflict[c].attempt) \subseteq {c}

\* By id, whatever the status is by now.
MarkConflict(c, status, n) ==
    /\ MayMark(c, status)
    /\ conflict' = [conflict EXCEPT
         ![c].status = status,
         ![c].replacement = IF n = 0 THEN @ ELSE n]
=============================================================================
