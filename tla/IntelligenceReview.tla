-------------------------- MODULE IntelligenceReview --------------------------
(***************************************************************************)
(* The review of intelligence objects and the conflicts it leaves behind   *)
(* (nextgen/routes/intelligence.py, routes/passports.py,                   *)
(* approval_policy.py), publishing through GovernedPublication.            *)
(*                                                                         *)
(* A session is one request to a handler.  review_intelligence reads the   *)
(* object, publishes, and then writes the object by id alone; the handlers *)
(* of conflicts read a conflict and write it by id alone.                  *)
(***************************************************************************)
EXTENDS GovernedPublication

CONSTANTS
    Inspectors,     \* users who create intelligence objects
    Reviewers,      \* users whose role may review the risk tier of the objects
    Operators,      \* users whose role may review conflicts
    Sessions,
    NoUser, NoObject, NoRequest,
    MaxMarks,       \* bound on the reviews and rejections of conflicts
    MaxRebases,     \* bound on the rebases
    MaxCrashes      \* bound on transactions that fail and handlers that die

ASSUME ReviewAssumption ==
    /\ Inspectors \cup Reviewers \cup Operators \subseteq Users
    /\ NoUser \notin Users
    /\ NoObject \notin Objects
    /\ NoRequest \notin Request
    /\ {MaxMarks, MaxRebases, MaxCrashes} \subseteq Nat

VARIABLES
    pio,        \* intelligence_objects
    announced,  \* objects with an INTELLIGENCE_APPROVED event in the outbox
    session,    \* each handler: where it is, and its locals
    budget      \* what is left of the bounds

vars == <<log, row, conflict, pio, announced, session, budget>>

----------------------------------------------------------------------------
States == {"none", "candidate", "requires_field_verification", "publication_failed",
           "passport_committed", "rejected"}
Failures == {"none", "STALE_EXPECTED_STATE", "FAILED"}

PIO == [state : States, author : Users \cup {NoUser}, entry : Nat, failure : Failures]

NoPIO == [state |-> "none", author |-> NoUser, entry |-> 0, failure |-> "none"]

Steps == {"idle", "head", "check", "commit", "conflict", "insert", "failed", "save",
          "announce", "decide", "mark", "rebase", "rebased"}

IdleSession == [pc |-> "idle", user |-> NoUser, object |-> NoObject, conflict |-> 0,
                request |-> NoRequest, attempt |-> 0, seen |-> 0, reason |-> "none", entry |-> 0,
                decision |-> "none"]

Decisions == {"none", "rejected", "candidate", "requires_field_verification",
              "UNDER_REVIEW", "REJECTED", "REBASE_APPROVED"}

TypeOK ==
    /\ PublicationTypeOK
    /\ pio \in [Objects -> PIO]
    /\ announced \subseteq Objects
    /\ budget \in [reviews : Nat, marks : Nat, rebases : Nat, crashes : Nat]
    /\ \A s \in Sessions :
          /\ session[s].pc \in Steps
          /\ session[s].user \in Users \cup {NoUser}
          /\ session[s].object \in Objects \cup {NoObject}
          /\ session[s].conflict \in 0 .. Len(conflict)
          /\ session[s].request \in Request \cup {NoRequest}
          /\ session[s].attempt \in 0 .. MaxReviews
          /\ session[s].seen \in Nat /\ session[s].entry \in Nat
          /\ session[s].reason \in Reasons \cup {"none"}
          /\ session[s].decision \in Decisions

Init ==
    /\ PublicationInit
    /\ pio = [p \in Objects |-> NoPIO]
    /\ announced = {}
    /\ session = [s \in Sessions |-> IdleSession]
    /\ budget = [reviews |-> MaxReviews, marks |-> MaxMarks, rebases |-> MaxRebases,
                 crashes |-> MaxCrashes]

----------------------------------------------------------------------------
(* Control of a handler *)

Begin(s, kind, locals) ==
    /\ session[s].pc = "idle"
    /\ budget[kind] > 0
    /\ budget' = [budget EXCEPT ![kind] = @ - 1]
    /\ session' = [session EXCEPT ![s] = locals]
    /\ UNCHANGED <<log, row, conflict, pio, announced>>

Goto(s, from, to) ==
    /\ session[s].pc = from
    /\ session' = [session EXCEPT ![s].pc = to]

Finish(s, from) ==
    /\ session[s].pc = from
    /\ session' = [session EXCEPT ![s] = IdleSession]

Rebasing(s) == session[s].conflict # 0

----------------------------------------------------------------------------
(* create_intelligence; the part of review_intelligence before publication  *)

CreateIntelligence(u, p) ==
    /\ u \in Inspectors
    /\ pio[p].state = "none"
    /\ pio' = [pio EXCEPT ![p] = [NoPIO EXCEPT !.state = "candidate", !.author = u]]
    /\ UNCHANGED <<log, row, conflict, announced, session, budget>>

\* evaluate_approval_policy, on the document that was read.
Reviewable(u, p) ==
    /\ pio[p].state \notin {"none", "passport_committed", "rejected"}
    /\ u \in Reviewers \ {pio[p].author}

BeginApprove(s, u, p) ==
    /\ Reviewable(u, p)
    /\ Begin(s, "reviews", [IdleSession EXCEPT !.pc = "head", !.user = u, !.object = p,
                                    !.attempt = MaxReviews + 1 - budget.reviews])

\* load_expected_state, after which the payload is signed with the time.
ReadHead(s) ==
    /\ session[s].pc = "head"
    /\ session' = [session EXCEPT ![s].pc = "check", ![s].request =
         [key |-> session[s].object, source |-> session[s].object,
          content |-> session[s].attempt, rebaseOf |-> 0,
          expRev |-> Len(log), expHead |-> IF Len(log) = 0 THEN NoToken ELSE Len(log),
          actor |-> session[s].user]]
    /\ UNCHANGED <<log, row, conflict, pio, announced, budget>>

\* Rejection, rework and field verification: role and duties are checked alike.
BeginDecision(s, u, p, state) ==
    /\ Reviewable(u, p)
    /\ Begin(s, "reviews", [IdleSession EXCEPT !.pc = "decide", !.user = u, !.object = p,
                                    !.decision = state])

SaveDecision(s) ==
    /\ Finish(s, "decide")
    /\ pio' = [pio EXCEPT ![session[s].object].state = session[s].decision]
    /\ UNCHANGED <<log, row, conflict, announced, budget>>

----------------------------------------------------------------------------
(* governed_publish, for an approval and for a rebase *)

Asked(s) == session[s].request

\* Where a handler goes when append_entry raises.
Raised(s) == IF Rebasing(s) THEN IdleSession ELSE [session[s] EXCEPT !.pc = "failed"]

Admit(s) ==
    /\ session[s].pc = "check"
    /\ Current(Asked(s))
    /\ session' = [session EXCEPT ![s].pc = "commit", ![s].seen = Len(log)]
    /\ UNCHANGED <<log, row, conflict, pio, announced, budget>>

\* IdempotencyConflictError, which leaves the object as it is.
RefuseReusedKey(s) ==
    /\ Finish(s, "check")
    /\ KeyReused(Asked(s))
    /\ UNCHANGED <<log, row, conflict, pio, announced, budget>>

\* DUPLICATE_SAME_REQUEST.
ReturnOriginal(s) ==
    /\ session[s].pc = "check"
    /\ AlreadyCommitted(Asked(s))
    /\ session' = [session EXCEPT ![s].entry = row[Asked(s).key].entry,
                                  ![s].pc = IF Rebasing(s) THEN "rebased" ELSE "save"]
    /\ UNCHANGED <<log, row, conflict, pio, announced, budget>>

RefuseStale(s) ==
    /\ session[s].pc = "check"
    /\ Stale(Asked(s))
    /\ session' = [session EXCEPT ![s].pc = "conflict", ![s].seen = Len(log),
                                  ![s].reason = "STALE_EXPECTED_STATE"]
    /\ UNCHANGED <<log, row, conflict, pio, announced, budget>>

\* Index readiness, transactions unavailable: before anything is written.
RefuseUnready(s) ==
    /\ session[s].pc = "check"
    /\ session' = [session EXCEPT ![s] = Raised(s)]
    /\ UNCHANGED <<log, row, conflict, pio, announced, budget>>

Publish(s) ==
    /\ session[s].pc = "commit"
    /\ CommitEntry(Asked(s), session[s].seen)
    /\ session' = [session EXCEPT ![s].entry = Len(log) + 1,
                                  ![s].pc = IF Rebasing(s) THEN "rebased" ELSE "save"]
    /\ UNCHANGED <<pio, announced, budget>>

LoseRace(s) ==
    /\ session[s].pc = "commit"
    /\ LostRace(session[s].seen)
    /\ session' = [session EXCEPT ![s].pc = "conflict", ![s].reason = "CAS_RACE_STALE"]
    /\ UNCHANGED <<log, row, conflict, pio, announced, budget>>

\* DuplicateKeyError of the idempotency row: the transaction aborts.
RejectCommit(s) ==
    /\ session[s].pc = "commit"
    /\ KeyTaken(Asked(s), session[s].seen)
    /\ MarkFailed(Asked(s))
    /\ session' = [session EXCEPT ![s] = Raised(s)]
    /\ UNCHANGED <<log, conflict, pio, announced, budget>>

FailCommit(s) ==
    /\ session[s].pc = "commit"
    /\ budget.crashes > 0
    /\ budget' = [budget EXCEPT !.crashes = @ - 1]
    /\ FailEntry(Asked(s), session[s].seen)
    /\ session' = [session EXCEPT ![s] = Raised(s)]
    /\ UNCHANGED <<pio, announced>>

----------------------------------------------------------------------------
(* create_conflict_record *)

Refused(s) == Attempt(Asked(s), session[s].reason, session[s].seen)

\* After the conflict is recorded a lost race marks the key.
AfterConflict(s) ==
    /\ session' = [session EXCEPT ![s] = Raised(s)]
    /\ IF session[s].reason = "CAS_RACE_STALE" THEN MarkFailed(Asked(s)) ELSE UNCHANGED row

FindConflict(s) ==
    /\ session[s].pc = "conflict"
    /\ IF ActiveFor(Refused(s)) # {} THEN AfterConflict(s)
                                     ELSE Goto(s, "conflict", "insert") /\ UNCHANGED row
    /\ UNCHANGED <<log, conflict, pio, announced, budget>>

\* Mutant of InsertConflict: the refusal is not recorded.
DropConflict(s) ==
    /\ session[s].pc = "insert"
    /\ AfterConflict(s)
    /\ UNCHANGED <<log, conflict, pio, announced, budget>>

\* The insert, or the conflict of the call that was faster.
InsertConflict(s) ==
    /\ session[s].pc = "insert"
    /\ OpenConflict(Refused(s)) \/ (ActiveFor(Refused(s)) # {} /\ UNCHANGED conflict)
    /\ AfterConflict(s)
    /\ UNCHANGED <<log, pio, announced, budget>>

----------------------------------------------------------------------------
(* The end of review_intelligence *)

\* Mutant of SaveFailure: the document is written as it was read.
SaveFailureOver(s) ==
    /\ Finish(s, "failed")
    /\ pio' = [pio EXCEPT ![session[s].object] =
                 [@ EXCEPT !.state = "publication_failed", !.entry = 0]]
    /\ UNCHANGED <<log, row, conflict, announced, budget>>

SaveFailure(s) ==
    /\ Finish(s, "failed")
    /\ pio' = [pio EXCEPT ![session[s].object] =
                 [@ EXCEPT !.state = "publication_failed",
                           !.failure = IF session[s].reason = "none"
                                       THEN "FAILED" ELSE "STALE_EXPECTED_STATE"]]
    /\ UNCHANGED <<log, row, conflict, announced, budget>>

\* Mutant of SaveCommit: the reference is the head that was seen.
SaveCommitSeen(s) ==
    /\ Goto(s, "save", "announce")
    /\ pio' = [pio EXCEPT ![session[s].object] =
                 [@ EXCEPT !.state = "passport_committed", !.entry = session[s].seen,
                           !.failure = "none"]]
    /\ UNCHANGED <<log, row, conflict, announced, budget>>

SaveCommit(s) ==
    /\ Goto(s, "save", "announce")
    /\ pio' = [pio EXCEPT ![session[s].object] =
                 [@ EXCEPT !.state = "passport_committed", !.entry = session[s].entry,
                           !.failure = "none"]]
    /\ UNCHANGED <<log, row, conflict, announced, budget>>

\* property_timeline and emit_outbox_event.
Announce(s) ==
    /\ Finish(s, "announce")
    /\ announced' = announced \cup {session[s].object}
    /\ UNCHANGED <<log, row, conflict, pio, budget>>

----------------------------------------------------------------------------
(* review_conflict, reject_conflict and approve_rebase *)

BeginMark(s, u, c, status) ==
    /\ u \in Operators
    /\ \/ status = "UNDER_REVIEW" /\ conflict[c].status \in {"OPEN", "UNDER_REVIEW"}
       \/ status = "REJECTED" /\ conflict[c].status \notin Terminal
    /\ Begin(s, "marks", [IdleSession EXCEPT !.pc = "mark", !.user = u, !.conflict = c,
                                             !.decision = status])

\* The operator sends a head they have seen, a payload and a key of their own.
BeginRebase(s, u, c, key, rev) ==
    /\ u \in Operators
    /\ conflict[c].status \notin Terminal
    /\ key # conflict[c].attempt.key
    /\ Begin(s, "rebases", [IdleSession EXCEPT !.pc = "mark", !.user = u, !.conflict = c,
                    !.decision = "REBASE_APPROVED",
                    !.request = [key |-> key, source |-> conflict[c].attempt.source,
                                 content |-> 0, rebaseOf |-> c, expRev |-> rev,
                                 expHead |-> NoToken, actor |-> u]])

SaveMark(s) ==
    /\ session[s].pc = "mark"
    /\ MarkConflict(session[s].conflict, session[s].decision, 0)
    /\ session' = [session EXCEPT ![s] = IF session[s].request = NoRequest THEN IdleSession
                                         ELSE [@ EXCEPT !.pc = "check"]]
    /\ UNCHANGED <<log, row, pio, announced, budget>>

\* The unique index refuses the update: DuplicateKeyError.
RefuseMark(s) ==
    /\ ~MayMark(session[s].conflict, session[s].decision)
    /\ Finish(s, "mark")
    /\ UNCHANGED <<log, row, conflict, pio, announced, budget>>

\* Mutant of SaveRebased: the replacement is the head the rebase started from.
SaveRebasedSeen(s) ==
    /\ Finish(s, "rebased")
    /\ MarkConflict(session[s].conflict, "REBASED", Asked(s).expRev)
    /\ UNCHANGED <<log, row, pio, announced, budget>>

SaveRebased(s) ==
    /\ Finish(s, "rebased")
    /\ MarkConflict(session[s].conflict, "REBASED", session[s].entry)
    /\ UNCHANGED <<log, row, pio, announced, budget>>

\* The process dies, or a database call raises what no handler catches.
Crash(s) ==
    /\ session[s].pc # "idle"
    /\ budget.crashes > 0
    /\ budget' = [budget EXCEPT !.crashes = @ - 1]
    /\ session' = [session EXCEPT ![s] = IdleSession]
    /\ UNCHANGED <<log, row, conflict, pio, announced>>

----------------------------------------------------------------------------
Review(s, u, p) ==
    \/ BeginApprove(s, u, p)
    \/ \E state \in {"rejected", "candidate", "requires_field_verification"} :
          BeginDecision(s, u, p, state)

Operate(s, u, c) ==
    \/ \E status \in {"UNDER_REVIEW", "REJECTED"} : BeginMark(s, u, c, status)
    \/ \E key \in RebaseKeys, rev \in 0 .. Len(log) : BeginRebase(s, u, c, key, rev)

Proceed(s) ==
    \/ ReadHead(s)      \/ SaveDecision(s)
    \/ Admit(s)         \/ RefuseReusedKey(s)   \/ ReturnOriginal(s)    \/ RefuseStale(s)
    \/ RefuseUnready(s) \/ Publish(s)           \/ LoseRace(s)          \/ RejectCommit(s)
    \/ FailCommit(s)    \/ FindConflict(s)     \/ InsertConflict(s)
    \/ SaveFailure(s)   \/ SaveCommit(s)        \/ Announce(s)
    \/ SaveMark(s)      \/ RefuseMark(s)        \/ SaveRebased(s)       \/ Crash(s)

OtherSource(f) ==
    /\ PublishFinding(f)
    /\ UNCHANGED <<pio, announced, session, budget>>

Next ==
    \/ \E u \in Users, p \in Objects : CreateIntelligence(u, p)
    \/ \E f \in Findings : OtherSource(f)
    \/ \E s \in Sessions :
          \/ Proceed(s)
          \/ \E u \in Users, p \in Objects : Review(s, u, p)
          \/ \E u \in Users, c \in DOMAIN conflict : Operate(s, u, c)

Spec == Init /\ [][Next]_vars

----------------------------------------------------------------------------
(* Properties *)

\* Position n of the ledger holds an approval of p, under the key of p.
Approves(n, p) == n \in DOMAIN log /\ log[n].key = p /\ log[n].source = p /\ log[n].rebaseOf = 0

\* What is shown as committed, or announced as such, is on the ledger at the place
\* the object records; a reference outlives any later write of the state.
CommittedOnLedger ==
    \A p \in Objects :
        pio[p].state = "passport_committed" \/ pio[p].entry # 0 \/ p \in announced
            => Approves(pio[p].entry, p)

\* No refused approval is lost: an object that failed on a stale head has a conflict
\* in the queue, under the key it failed with.
RefusalsAreQueued ==
    \A p \in Objects : pio[p].failure = "STALE_EXPECTED_STATE" =>
        \E c \in DOMAIN conflict : conflict[c].attempt.key = p /\ conflict[c].attempt.source = p

\* The replacement a conflict records is the entry of a rebase of that conflict, made
\* under another key than the refused attempt, and a rebased conflict has one.
ReplacementOnLedger ==
    \A c \in DOMAIN conflict :
        /\ conflict[c].status = "REBASED" => conflict[c].replacement # 0
        /\ conflict[c].replacement # 0 =>
              /\ conflict[c].replacement \in DOMAIN log
              /\ log[conflict[c].replacement].rebaseOf = c
              /\ log[conflict[c].replacement].key # conflict[c].attempt.key

\* Identical refusals share one active conflict, whatever handlers overlap.
OneActiveConflict ==
    \A c \in DOMAIN conflict :
        conflict[c].status \in Active => ActiveFor(conflict[c].attempt) = {c}

\* The passport reference of an object is never changed once it is there, though a
\* failed attempt may overwrite the state beside it.
ReferenceIsFinal ==
    [][\A p \in Objects : pio[p].entry # 0 => pio'[p].entry = pio[p].entry]_vars

\* A rebase passes the same approval gates (the rebase law of the authority document).
RebasersAreNotAuthors ==
    \A n \in DOMAIN log, p \in Objects : log[n].source = p => log[n].actor # pio[p].author

\* "Resolved/rejected history remains immutable and is not overwritten" (the conflict law of
\* the authority document).
ClosedIsFinal ==
    [][\A c \in DOMAIN conflict :
          conflict[c].status \in Terminal => conflict'[c].status = conflict[c].status]_vars

\* publication_failed is retryable (the authority document): as long as p is not on the
\* ledger, no row stands in the way of its key; each attempt has another fingerprint,
\* for its payload is signed anew.
FailedIsRetryable ==
    \A p \in Objects :
        pio[p].state = "publication_failed" /\ ~(\E n \in DOMAIN log : Approves(n, p))
            => row[p].status = "NONE"

\* A committed object stays committed.
CommittedIsFinal ==
    [][\A p \in Objects :
          pio[p].state = "passport_committed" => pio'[p].state = "passport_committed"]_vars
=============================================================================
