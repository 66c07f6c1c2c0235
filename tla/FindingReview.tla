---------------------------- MODULE FindingReview ----------------------------
(***************************************************************************)
(* The review of findings and their publication to the passport            *)
(* (nextgen/routes/findings.py, governed_publish_service.py,               *)
(* approval_policy.py).                                                    *)
(*                                                                         *)
(* A session is one request to a handler.  Every handler reads the finding,*)
(* checks what it read, and later writes by id alone; an approval reads    *)
(* the head of the ledger and publishes in between.  The ledger is         *)
(* LedgerChain, which PassportLedger implements in production mode.        *)
(*                                                                         *)
(* The substance of a finding is represented by who wrote it last, and its *)
(* review_history by the users its create and edit entries name.           *)
(***************************************************************************)
EXTENDS Integers, Sequences

CONSTANTS
    Findings,       \* the findings of one property
    Users,          \* users of the tenant, all of whom may create findings
    Approvers,      \* those with an approver role (ceo, admin, gm)
    Sessions,       \* the handlers that may overlap
    NoUser, NoFinding, NoToken,     \* None, in different places
    MaxCalls,       \* bound on the requests made, beside creations
    MaxCrashes      \* bound on the handlers that die

ASSUME ReviewAssumption ==
    /\ Approvers \subseteq Users
    /\ NoUser \notin Users
    /\ NoFinding \notin Findings
    /\ NoToken \notin Nat
    /\ {MaxCalls, MaxCrashes} \subseteq Nat

VARIABLES
    finding,    \* the findings collection
    log,        \* the passport ledger
    announced,  \* findings with a FINDING_APPROVED event in the outbox
    session,    \* each handler: where it is, and its locals
    budget      \* what is left of the bounds

vars == <<finding, log, announced, session, budget>>

----------------------------------------------------------------------------
Statuses == {"none", "DRAFT", "PENDING_REVIEW", "APPROVED", "REJECTED", "RESOLVED", "SUPERSEDED"}

Finding == [status : Statuses, author : Users \cup {NoUser}, editors : SUBSET Users,
            writer : Users \cup {NoUser}, entry : Nat,
            supersedes : Findings \cup {NoFinding}, successor : Findings \cup {NoFinding}]

NoDocument == [status |-> "none", author |-> NoUser, editors |-> {}, writer |-> NoUser,
               entry |-> 0, supersedes |-> NoFinding, successor |-> NoFinding]

Draft(u, prior) == [NoDocument EXCEPT !.status = "DRAFT", !.author = u, !.editors = {u},
                                      !.writer = u, !.supersedes = prior]

Key == [kind : {"publish", "supersede"}, of : Findings, by : Findings]

\* An entry: who approved it, what it says, and the request it was made with.  What a
\* supersession says are the content hashes made with the two findings, which edits leave
\* as they are: it names no writer.
Publication == [key : Key, expRev : Nat, expHead : Nat \cup {NoToken},
                approver : Users, writer : Users \cup {NoUser}]

Ledger == INSTANCE LedgerChain WITH Requests <- Publication

Steps == {"idle", "edit", "submit", "reject", "resolve", "draft", "head", "publish",
          "approve", "announce", "prior", "priorhead", "supersede", "flip"}

Session == [pc : Steps, user : Users \cup {NoUser}, finding : Findings \cup {NoFinding},
            editors : SUBSET Users, writer : Users \cup {NoUser}, head : Nat, seq : Nat]

IdleSession == [pc |-> "idle", user |-> NoUser, finding |-> NoFinding, editors |-> {},
                writer |-> NoUser, head |-> 0, seq |-> 0]

TypeOK ==
    /\ finding \in [Findings -> Finding]
    /\ log \in Seq(Publication)
    /\ announced \subseteq Findings
    /\ session \in [Sessions -> Session]
    /\ budget \in [calls : Nat, crashes : Nat]

Init ==
    /\ finding = [f \in Findings |-> NoDocument]
    /\ Ledger!ChainInit
    /\ announced = {}
    /\ session = [s \in Sessions |-> IdleSession]
    /\ budget = [calls |-> MaxCalls, crashes |-> MaxCrashes]

----------------------------------------------------------------------------
(* Control of a handler *)

\* The handler finds the document; the snapshot it keeps is what it uses later.
Begin(s, u, f, step) ==
    /\ session[s].pc = "idle"
    /\ budget.calls > 0
    /\ budget' = [budget EXCEPT !.calls = @ - 1]
    /\ session' = [session EXCEPT ![s] =
                      [IdleSession EXCEPT !.pc = step, !.user = u, !.finding = f,
                                          !.editors = finding[f].editors,
                                          !.writer = finding[f].writer]]
    /\ UNCHANGED <<finding, log, announced>>

Goto(s, from, to) ==
    /\ session[s].pc = from
    /\ session' = [session EXCEPT ![s].pc = to]

Finish(s, from) ==
    /\ session[s].pc = from
    /\ session' = [session EXCEPT ![s] = IdleSession]

Prior(s) == finding[session[s].finding].supersedes

----------------------------------------------------------------------------
(* create_finding, update_finding, submit_for_review, reject_finding and    *)
(* resolve_finding                                                          *)

CreateFinding(u, f) ==
    /\ finding[f].status = "none"
    /\ finding' = [finding EXCEPT ![f] = Draft(u, NoFinding)]
    /\ UNCHANGED <<log, announced, session, budget>>

BeginEdit(s, u, f) ==
    /\ finding[f].status = "DRAFT"
    /\ u = finding[f].author \/ u \in Approvers
    /\ Begin(s, u, f, "edit")

SaveEdit(s) ==
    /\ Finish(s, "edit")
    /\ finding' = [finding EXCEPT ![session[s].finding] =
                      [@ EXCEPT !.writer = session[s].user,
                                !.editors = session[s].editors \cup {session[s].user}]]
    /\ UNCHANGED <<log, announced, budget>>

BeginSubmit(s, u, f) ==
    /\ finding[f].status = "DRAFT"
    /\ Begin(s, u, f, "submit")

BeginReject(s, u, f) ==
    /\ finding[f].status = "PENDING_REVIEW"
    /\ u \in Approvers \ {finding[f].author}
    /\ Begin(s, u, f, "reject")

BeginResolve(s, u, f) ==
    /\ finding[f].status = "APPROVED"
    /\ u \in Approvers
    /\ Begin(s, u, f, "resolve")

\* The review_history written back is the one that was read.
SaveStatus(s, step, status) ==
    /\ Finish(s, step)
    /\ finding' = [finding EXCEPT ![session[s].finding] =
                      [@ EXCEPT !.status = status, !.editors = session[s].editors]]
    /\ UNCHANGED <<log, announced, budget>>

SaveSubmit(s) == SaveStatus(s, "submit", "PENDING_REVIEW")
SaveReject(s) == SaveStatus(s, "reject", "REJECTED")
SaveResolve(s) == SaveStatus(s, "resolve", "RESOLVED")

----------------------------------------------------------------------------
(* approve_finding *)

\* Mutant of Approvable: no separation of duties.
ApprovableByRole(u, f) ==
    /\ finding[f].status = "PENDING_REVIEW"
    /\ u \in Approvers

\* evaluate_approval_policy, on the document that was read.
Approvable(u, f) ==
    /\ finding[f].status = "PENDING_REVIEW"
    /\ u \in Approvers
    /\ u \notin finding[f].editors \cup {finding[f].author}

BeginApprove(s, u, f) ==
    /\ Approvable(u, f)
    /\ Begin(s, u, f, "head")

\* load_expected_state.  Tokens sent with the request stand for an earlier or a
\* later moment of this step.
ReadHead(s) ==
    /\ session[s].pc \in {"head", "priorhead"}
    /\ session' = [session EXCEPT
         ![s].head = Len(log),
         ![s].pc = IF @ = "head" THEN "publish" ELSE "supersede"]
    /\ UNCHANGED <<finding, log, announced, budget>>

\* Mutant of PublishKey: one key for each approver of a finding.
PublishKeyOfUser(s) ==
    [kind |-> "publish", of |-> session[s].finding, by |-> session[s].user]

PublishKey(s) ==
    [kind |-> "publish", of |-> session[s].finding, by |-> session[s].finding]

SupersedeKey(s) ==
    [kind |-> "supersede", of |-> Prior(s), by |-> session[s].finding]

\* What a handler asks governed_publish to append: of this the fingerprint is made.
Attempt(s, key) ==
    [key |-> key, expRev |-> session[s].head,
     expHead |-> IF session[s].head = 0 THEN NoToken ELSE session[s].head,
     approver |-> session[s].user,
     writer |-> IF key.kind = "publish" THEN session[s].writer ELSE NoUser]

AppendEntry(s, key) == Ledger!Extend(Attempt(s, key))

Publish(s) ==
    /\ session[s].pc = "publish"
    /\ AppendEntry(s, PublishKey(s))
    /\ session' = [session EXCEPT ![s].pc = "approve", ![s].seq = Len(log) + 1]
    /\ UNCHANGED <<finding, announced, budget>>

\* Mutant of RefusePublication: the handler goes on after a refusal.
IgnoreRefusal(s) ==
    /\ \/ Goto(s, "publish", "approve")
       \/ Goto(s, "supersede", "flip")
    /\ UNCHANGED <<finding, log, announced, budget>>

\* append_entry raises, for any of its reasons; the finding is left as it is.
RefusePublication(s) ==
    /\ Finish(s, "publish") \/ Finish(s, "supersede")
    /\ UNCHANGED <<finding, log, announced, budget>>

SaveApproval(s) ==
    /\ Goto(s, "approve", "announce")
    /\ finding' = [finding EXCEPT ![session[s].finding] =
                      [@ EXCEPT !.status = "APPROVED", !.entry = session[s].seq,
                                !.editors = session[s].editors]]
    /\ UNCHANGED <<log, announced, budget>>

\* emit_outbox_event; then the supersession, if there is one.
Announce(s) ==
    /\ session[s].pc = "announce"
    /\ IF Prior(s) = NoFinding THEN Finish(s, "announce") ELSE Goto(s, "announce", "prior")
    /\ announced' = announced \cup {session[s].finding}
    /\ UNCHANGED <<finding, log, budget>>

----------------------------------------------------------------------------
(* supersede_finding and _finalize_supersession *)

BeginSupersede(s, u, f) ==
    /\ finding[f].status \in {"APPROVED", "RESOLVED"}
    /\ Begin(s, u, f, "draft")

DraftSuccessor(s) ==
    /\ Finish(s, "draft")
    /\ \E f \in Findings :
          /\ finding[f].status = "none"
          /\ finding' = [finding EXCEPT ![f] = Draft(session[s].user, session[s].finding)]
    /\ UNCHANGED <<log, announced, budget>>

\* finalize_supersession_endpoint: what an approval left undone is done later, or beside it.
BeginFinalize(s, u, f) ==
    /\ u \in Approvers
    /\ finding[f].status = "APPROVED" /\ finding[f].supersedes # NoFinding
    /\ Begin(s, u, f, "prior")

FindPrior(s) ==
    /\ session[s].pc = "prior"
    /\ IF finding[Prior(s)].status = "SUPERSEDED" THEN Finish(s, "prior")
                                                  ELSE Goto(s, "prior", "priorhead")
    /\ UNCHANGED <<finding, log, announced, budget>>

PublishSupersession(s) ==
    /\ Goto(s, "supersede", "flip")
    /\ AppendEntry(s, SupersedeKey(s))
    /\ UNCHANGED <<finding, announced, budget>>

\* DUPLICATE_SAME_REQUEST: the same approver, on the same head, has appended this
\* entry from another request; the ledger answers with it.  An approval, whose payload
\* holds the time of the attempt, is never the same as another.
RepeatSupersession(s) ==
    /\ Goto(s, "supersede", "flip")
    /\ \E n \in DOMAIN log : log[n] = Attempt(s, SupersedeKey(s))
    /\ UNCHANGED <<finding, log, announced, budget>>

MarkSuperseded(s) ==
    /\ Finish(s, "flip")
    /\ finding' = [finding EXCEPT ![Prior(s)] =
                      [@ EXCEPT !.status = "SUPERSEDED", !.successor = session[s].finding]]
    /\ UNCHANGED <<log, announced, budget>>

\* The process dies, the request is cancelled, or a database call raises; between
\* Publish and SaveApproval it may be append_entry, after its commit.
Crash(s) ==
    /\ session[s].pc # "idle"
    /\ budget.crashes > 0
    /\ budget' = [budget EXCEPT !.crashes = @ - 1]
    /\ session' = [session EXCEPT ![s] = IdleSession]
    /\ UNCHANGED <<finding, log, announced>>

----------------------------------------------------------------------------
Request(s, u, f) ==
    \/ BeginEdit(s, u, f)       \/ BeginSubmit(s, u, f)     \/ BeginReject(s, u, f)
    \/ BeginResolve(s, u, f)    \/ BeginApprove(s, u, f)    \/ BeginSupersede(s, u, f)
    \/ BeginFinalize(s, u, f)

Proceed(s) ==
    \/ SaveEdit(s)          \/ SaveSubmit(s)    \/ SaveReject(s)    \/ SaveResolve(s)
    \/ ReadHead(s)          \/ Publish(s)       \/ RefusePublication(s)
    \/ SaveApproval(s)      \/ Announce(s)
    \/ DraftSuccessor(s)    \/ FindPrior(s)     \/ PublishSupersession(s)
    \/ RepeatSupersession(s)    \/ MarkSuperseded(s)    \/ Crash(s)

Next ==
    \/ \E u \in Users, f \in Findings : CreateFinding(u, f)
    \/ \E s \in Sessions : Proceed(s) \/ \E u \in Users, f \in Findings : Request(s, u, f)

Spec == Init /\ [][Next]_vars

----------------------------------------------------------------------------
(* Properties *)

\* Position n of the ledger holds the publication of f.
Publishes(n, f) == n \in DOMAIN log /\ log[n].key.kind = "publish" /\ log[n].key.of = f

\* What is shown as approved, or announced as such, is on the ledger at the place
\* the finding records, whatever stale write came before or after.
ApprovedOnLedger ==
    \A f \in Findings :
        finding[f].status \in {"APPROVED", "RESOLVED", "SUPERSEDED"} \/ f \in announced
            => Publishes(finding[f].entry, f)

\* A finding is superseded only when the ledger says so, after it says that both
\* it and its successor were approved.
SupersededOnLedger ==
    \A f \in Findings : finding[f].status = "SUPERSEDED" =>
        \E n \in DOMAIN log :
            /\ log[n].key = [kind |-> "supersede", of |-> f, by |-> finding[f].successor]
            /\ \E i, j \in 1 .. n - 1 :
                  Publishes(i, f) /\ Publishes(j, finding[f].successor)

\* The status of every finding is one that the ledger bears out.
StatusOnLedger == ApprovedOnLedger /\ SupersededOnLedger

\* Nobody approves a finding they created, by any interleaving of requests.
AuthorsDoNotApprove ==
    \A n \in DOMAIN log : \A f \in Findings :
        Publishes(n, f) => log[n].approver # finding[f].author

\* The passport reference a finding once records is never changed, whoever
\* approves it again or writes over its status.
ProvenanceIsFinal ==
    [][\A f \in Findings :
          finding[f].entry # 0 => finding'[f].entry = finding[f].entry]_vars

\* Material revisions count as authorship (the comment of _author_ids): who wrote
\* what a ledger entry says did not approve it.
RevisersDoNotApprove ==
    \A n \in DOMAIN log :
        log[n].key.kind = "publish" => log[n].approver # log[n].writer
=============================================================================
