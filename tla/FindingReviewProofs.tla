------------------------- MODULE FindingReviewProofs -------------------------
(***************************************************************************)
(* What the review of findings guarantees, for any findings, users and     *)
(* overlapping requests: every status is borne out by the ledger, nobody   *)
(* approves what they created, and a reference once recorded is final.     *)
(***************************************************************************)
EXTENDS FindingReview, TLAPS

\* The ledger says that g replaced f, after it said that both were approved.
Superseding(f, g) ==
    \E n \in DOMAIN log :
        /\ log[n].key = [kind |-> "supersede", of |-> f, by |-> g]
        /\ \E i, j \in 1 .. n - 1 : Publishes(i, f) /\ Publishes(j, g)

\* A document that exists, and what it may refer to.
DocumentOf(f) ==
    /\ finding[f].status # "none" => {finding[f].author, finding[f].writer} \subseteq Users
    /\ finding[f].entry # 0 => finding[f].status # "none" /\ Publishes(finding[f].entry, f)
    /\ finding[f].supersedes \in Findings => finding[finding[f].supersedes].entry # 0
    /\ finding[f].status \in {"APPROVED", "RESOLVED", "SUPERSEDED"} \/ f \in announced
           => finding[f].entry # 0
    /\ finding[f].status = "SUPERSEDED" => Superseding(f, finding[f].successor)

Documents == \A f \in Findings : DocumentOf(f)

\* Position n of the ledger comes after the publications of f and of g.
Follows(n, f, g) == \E i, j \in 1 .. n - 1 : Publishes(i, f) /\ Publishes(j, g)

\* An entry, its key and its approver, and what a supersession comes after.
EntryOf(n) ==
    /\ log[n].key.kind = "publish" =>
           /\ log[n].key.by = log[n].key.of
           /\ finding[log[n].key.of].status # "none"
           /\ log[n].approver # finding[log[n].key.of].author
    /\ log[n].key.kind = "supersede" => Follows(n, log[n].key.of, log[n].key.by)

Entries ==
    /\ \A n \in DOMAIN log : EntryOf(n)
    /\ \A m, n \in DOMAIN log : log[m].key = log[n].key => m = n

\* What a handler knows of its finding at each of its steps.
HandlerOf(s) ==
    session[s].pc # "idle" =>
        /\ {session[s].user, session[s].writer} \subseteq Users
        /\ session[s].finding \in Findings
        /\ finding[session[s].finding].status # "none"
        /\ session[s].pc \in {"head", "publish"} =>
               session[s].user # finding[session[s].finding].author
        /\ session[s].pc = "approve" => Publishes(session[s].seq, session[s].finding)
        /\ session[s].pc \in {"resolve", "draft", "announce", "prior", "priorhead",
                              "supersede", "flip"} =>
               finding[session[s].finding].entry # 0
        /\ session[s].pc \in {"prior", "priorhead", "supersede", "flip"} =>
               Prior(s) \in Findings
        /\ session[s].pc = "flip" => Superseding(Prior(s), session[s].finding)

Handlers == \A s \in Sessions : HandlerOf(s)

ReviewInv == TypeOK /\ Documents /\ Entries /\ Handlers

----------------------------------------------------------------------------
LEMMA InitReview == Init => ReviewInv
  <1> SUFFICES ASSUME Init PROVE ReviewInv
    OBVIOUS
  <1>1. NoDocument \in Finding /\ IdleSession \in Session
    BY DEF NoDocument, Finding, Statuses, IdleSession, Session, Steps
  <1>2. log = <<>>
    BY DEF Init, Ledger!ChainInit
  <1>3. TypeOK
    BY <1>1, <1>2, ReviewAssumption DEF Init, TypeOK
  <1>4. Documents
    BY ReviewAssumption DEF Init, Documents, DocumentOf, NoDocument
  <1>5. Entries
    BY <1>2 DEF Entries
  <1>6. Handlers
    BY DEF Init, Handlers, HandlerOf, IdleSession
  <1> QED
    BY <1>3, <1>4, <1>5, <1>6 DEF ReviewInv

----------------------------------------------------------------------------
(* The log only grows, by entries whose keys no other has *)

Appends(q) ==
    /\ q \in Publication
    /\ log' = Append(log, q)
    /\ \A n \in DOMAIN log : log[n].key # q.key

LEMMA HandlerTypes ==
    ASSUME ReviewInv, NEW s \in Sessions, session[s].pc # "idle"
    PROVE  /\ session[s] \in Session
           /\ session[s].user \in Users /\ session[s].writer \in Users
           /\ session[s].finding \in Findings
           /\ finding[session[s].finding] \in Finding
           /\ finding[session[s].finding].status # "none"
  BY DEF ReviewInv, TypeOK, Handlers, HandlerOf

LEMMA PublishAppends ==
    ASSUME ReviewInv, NEW s \in Sessions, Publish(s)
    PROVE  Appends(Attempt(s, PublishKey(s))) /\ session[s].pc = "publish"
  <1>1. session[s].pc = "publish"
    BY DEF Publish
  <1>2. PublishKey(s) \in Key
    BY <1>1, HandlerTypes DEF PublishKey, Key
  <1>3. session[s].head \in Nat /\ session[s].user \in Users /\ session[s].writer \in Users
    BY <1>1, HandlerTypes DEF Session
  <1>4. Attempt(s, PublishKey(s)) \in Publication
    BY <1>2, <1>3 DEF Attempt, Publication
  <1>5. Attempt(s, PublishKey(s)).key = PublishKey(s)
    BY DEF Attempt
  <1> QED
    BY <1>1, <1>4, <1>5 DEF Publish, AppendEntry, Appends, Attempt, Ledger!Extend, Ledger!Unused

LEMMA SupersedeAppends ==
    ASSUME ReviewInv, NEW s \in Sessions, PublishSupersession(s)
    PROVE  Appends(Attempt(s, SupersedeKey(s))) /\ session[s].pc = "supersede"
  <1>1. session[s].pc = "supersede"
    BY DEF PublishSupersession, Goto
  <1>2. SupersedeKey(s) \in Key
    BY <1>1, HandlerTypes DEF SupersedeKey, Key, ReviewInv, Handlers, HandlerOf
  <1>3. session[s].head \in Nat /\ session[s].user \in Users /\ session[s].writer \in Users
    BY <1>1, HandlerTypes DEF Session
  <1>4. Attempt(s, SupersedeKey(s)) \in Publication
    BY <1>2, <1>3 DEF Attempt, Publication
  <1>5. Attempt(s, SupersedeKey(s)).key = SupersedeKey(s)
    BY DEF Attempt
  <1> QED
    BY <1>1, <1>4, <1>5
       DEF PublishSupersession, AppendEntry, Appends, Attempt, Ledger!Extend, Ledger!Unused

\* A handler that is to append a supersession has both findings' publications behind it.
LEMMA SupersessionFollows ==
    ASSUME ReviewInv, NEW s \in Sessions, session[s].pc = "supersede"
    PROVE  Follows(Len(log) + 1, Prior(s), session[s].finding)
  <1> DEFINE f == session[s].finding
             p == Prior(s)
  <1>1. f \in Findings /\ p \in Findings /\ finding[f].entry # 0
    BY DEF ReviewInv, Handlers, HandlerOf
  <1>2. DocumentOf(f) /\ DocumentOf(p) /\ finding[p].entry # 0
    BY <1>1 DEF Prior, ReviewInv, Documents, DocumentOf
  <1>3. Publishes(finding[p].entry, p) /\ Publishes(finding[f].entry, f)
    BY <1>1, <1>2 DEF DocumentOf
  <1>4. log \in Seq(Publication)
    BY DEF ReviewInv, TypeOK
  <1> QED
    BY <1>3, <1>4 DEF Follows, Publishes

LEMMA LogStep ==
    ASSUME ReviewInv, [Next]_vars
    PROVE  \/ log' = log
           \/ \E s \in Sessions : Publish(s) \/ PublishSupersession(s)
  <1>1. ASSUME NEW u \in Users, NEW f \in Findings, CreateFinding(u, f) PROVE log' = log
    BY <1>1 DEF CreateFinding
  <1>2. ASSUME NEW s \in Sessions, NEW u \in Users, NEW f \in Findings, Request(s, u, f)
        PROVE  log' = log
    BY <1>2 DEF Request, BeginEdit, BeginSubmit, BeginReject, BeginResolve, BeginApprove,
       BeginSupersede, BeginFinalize, Begin
  <1>3. ASSUME NEW s \in Sessions, Proceed(s)
        PROVE  log' = log \/ Publish(s) \/ PublishSupersession(s)
    BY <1>3 DEF Proceed, SaveEdit, SaveSubmit, SaveReject, SaveResolve, SaveStatus, ReadHead,
       RefusePublication, SaveApproval, Announce, DraftSuccessor, FindPrior, RepeatSupersession,
       MarkSuperseded, Crash
  <1>4. CASE UNCHANGED vars
    BY <1>4 DEF vars
  <1> QED
    BY <1>1, <1>2, <1>3, <1>4 DEF Next

\* What the log says it goes on saying.
LogGrows ==
    /\ DOMAIN log \subseteq DOMAIN log'
    /\ \A n \in DOMAIN log : log'[n] = log[n]

LEMMA LogPersists == ASSUME ReviewInv, [Next]_vars PROVE LogGrows
  <1>1. log \in Seq(Publication)
    BY DEF ReviewInv, TypeOK
  <1>2. ASSUME NEW q, Appends(q) PROVE LogGrows
    BY <1>1, <1>2 DEF Appends, LogGrows
  <1> QED
    BY <1>2, LogStep, PublishAppends, SupersedeAppends DEF LogGrows

LEMMA PublicationPersists ==
    ASSUME LogGrows, NEW n, NEW f, Publishes(n, f)
    PROVE  Publishes(n, f)'
  BY DEF LogGrows, Publishes

LEMMA SupersessionPersists ==
    ASSUME ReviewInv, LogGrows, NEW f, NEW g, Superseding(f, g)
    PROVE  Superseding(f, g)'
  BY PublicationPersists DEF LogGrows, Superseding

----------------------------------------------------------------------------
(* The kept parts of a document *)

Kept(f) ==
    finding[f].status # "none" =>
        /\ finding'[f].status # "none"
        /\ finding'[f].author = finding[f].author
        /\ finding'[f].supersedes = finding[f].supersedes
        /\ finding[f].entry # 0 => finding'[f].entry = finding[f].entry

\* A finding is published once, because its key is its own.
LEMMA OnePublication ==
    ASSUME ReviewInv, NEW f, NEW m, NEW n, Publishes(m, f), Publishes(n, f)
    PROVE  m = n
  <1>0. log[m] \in Publication /\ log[n] \in Publication
    BY DEF ReviewInv, TypeOK, Publishes
  <1>1. log[m].key \in Key /\ log[n].key \in Key
    BY <1>0 DEF Publication
  <1>2. log[m].key.by = f /\ log[n].key.by = f
    BY DEF ReviewInv, Entries, EntryOf, Publishes
  <1>3. log[m].key = log[n].key
    BY <1>1, <1>2 DEF Key, Publishes
  <1> QED
    BY <1>3 DEF ReviewInv, Entries, Publishes

LEMMA DocumentsKept ==
    ASSUME ReviewInv, [Next]_vars, NEW f \in Findings
    PROVE  Kept(f)
  <1>1. finding \in [Findings -> Finding] /\ finding[f] \in Finding
    BY DEF ReviewInv, TypeOK
  <1>2. ASSUME finding' = finding PROVE Kept(f)
    BY <1>2 DEF Kept
  <1>3. ASSUME NEW u, NEW p, NEW g \in Findings, finding[g].status = "none",
               finding' = [finding EXCEPT ![g] = Draft(u, p)]
        PROVE  Kept(f)
    BY <1>1, <1>3 DEF Kept
  <1>4. ASSUME NEW u \in Users, NEW g \in Findings, CreateFinding(u, g) PROVE Kept(f)
    BY <1>3, <1>4 DEF CreateFinding
  <1>5. ASSUME NEW s \in Sessions, DraftSuccessor(s) PROVE Kept(f)
    BY <1>3, <1>5 DEF DraftSuccessor
  <1>6. ASSUME NEW s \in Sessions, SaveEdit(s) PROVE Kept(f)
    BY <1>1, <1>6 DEF SaveEdit, Kept, Finding
  <1>7. ASSUME NEW s \in Sessions, SaveSubmit(s) PROVE Kept(f)
    BY <1>1, <1>7 DEF SaveSubmit, SaveStatus, Kept, Finding
  <1>8. ASSUME NEW s \in Sessions, SaveReject(s) PROVE Kept(f)
    BY <1>1, <1>8 DEF SaveReject, SaveStatus, Kept, Finding
  <1>9. ASSUME NEW s \in Sessions, SaveResolve(s) PROVE Kept(f)
    BY <1>1, <1>9 DEF SaveResolve, SaveStatus, Kept, Finding
  <1>10. ASSUME NEW s \in Sessions, SaveApproval(s) PROVE Kept(f)
    <2>1. CASE session[s].finding # f
      BY <1>1, <1>10, <2>1 DEF SaveApproval, Kept
    <2>2. CASE session[s].finding = f
      <3>1. finding'[f].status = "APPROVED" /\ finding'[f].author = finding[f].author
            /\ finding'[f].supersedes = finding[f].supersedes
            /\ finding'[f].entry = session[s].seq
        BY <1>1, <1>10, <2>2 DEF SaveApproval, Finding
      <3>2. Publishes(session[s].seq, f)
        BY <1>10, <2>2 DEF SaveApproval, Goto, ReviewInv, Handlers, HandlerOf
      <3>3. finding[f].entry # 0 => finding[f].entry = session[s].seq
        BY <3>2, OnePublication DEF ReviewInv, Documents, DocumentOf
      <3> QED
        BY <3>1, <3>3 DEF Kept
    <2> QED
      BY <2>1, <2>2
  <1>11. ASSUME NEW s \in Sessions, MarkSuperseded(s) PROVE Kept(f)
    BY <1>1, <1>11 DEF MarkSuperseded, Kept, Finding
  <1>12. ASSUME NEW s \in Sessions,
                \/ ReadHead(s)  \/ Publish(s)   \/ RefusePublication(s) \/ Announce(s)
                \/ FindPrior(s) \/ PublishSupersession(s) \/ RepeatSupersession(s) \/ Crash(s)
         PROVE  finding' = finding
    BY <1>12 DEF ReadHead, Publish, RefusePublication, Announce, FindPrior,
       PublishSupersession, RepeatSupersession, Crash
  <1>13. ASSUME NEW s \in Sessions, NEW u \in Users, NEW g \in Findings, Request(s, u, g)
         PROVE  finding' = finding
    BY <1>13 DEF Request, BeginEdit, BeginSubmit, BeginReject, BeginResolve, BeginApprove,
       BeginSupersede, BeginFinalize, Begin
  <1>14. CASE UNCHANGED vars
    BY <1>2, <1>14 DEF vars
  <1> QED
    BY <1>2, <1>4, <1>5, <1>6, <1>7, <1>8, <1>9, <1>10, <1>11, <1>12, <1>13, <1>14
       DEF Next, Proceed
----------------------------------------------------------------------------
(* Types *)

LEMMA DraftTypes ==
    ASSUME NEW u \in Users, NEW p \in Findings \cup {NoFinding}
    PROVE  Draft(u, p) \in Finding
  BY DEF Draft, NoDocument, Finding, Statuses

LEMMA FindingTypes == ASSUME ReviewInv, [Next]_vars PROVE finding' \in [Findings -> Finding]
  <1>1. finding \in [Findings -> Finding]
    BY DEF ReviewInv, TypeOK
  <1>2. ASSUME NEW u \in Users, NEW f \in Findings, CreateFinding(u, f)
        PROVE  finding' \in [Findings -> Finding]
    BY <1>1, <1>2, DraftTypes DEF CreateFinding
  <1>3. ASSUME NEW s \in Sessions, DraftSuccessor(s) PROVE finding' \in [Findings -> Finding]
    <2>1. session[s].user \in Users /\ session[s].finding \in Findings
      BY <1>3, HandlerTypes DEF DraftSuccessor, Finish
    <2> QED
      BY <1>1, <1>3, <2>1, DraftTypes DEF DraftSuccessor
  <1>4. ASSUME NEW s \in Sessions, SaveEdit(s) PROVE finding' \in [Findings -> Finding]
    <2> DEFINE f == session[s].finding
    <2>1. session[s] \in Session /\ session[s].user \in Users /\ f \in Findings
          /\ finding[f] \in Finding
      BY <1>4, HandlerTypes DEF SaveEdit, Finish
    <2>2. [finding[f] EXCEPT !.writer = session[s].user,
                             !.editors = session[s].editors \cup {session[s].user}] \in Finding
      BY <2>1 DEF Finding, Session
    <2> QED
      BY <1>1, <1>4, <2>1, <2>2 DEF SaveEdit
  <1>5. ASSUME NEW s \in Sessions, NEW step \in Steps \ {"idle"}, NEW status \in Statuses,
               SaveStatus(s, step, status)
        PROVE  finding' \in [Findings -> Finding]
    <2> DEFINE f == session[s].finding
    <2>1. session[s] \in Session /\ f \in Findings /\ finding[f] \in Finding
      BY <1>5, HandlerTypes DEF SaveStatus, Finish
    <2>2. [finding[f] EXCEPT !.status = status, !.editors = session[s].editors] \in Finding
      BY <2>1 DEF Finding, Session
    <2> QED
      BY <1>1, <1>5, <2>1, <2>2 DEF SaveStatus
  <1>6. ASSUME NEW s \in Sessions, SaveSubmit(s) \/ SaveReject(s) \/ SaveResolve(s)
        PROVE  finding' \in [Findings -> Finding]
    BY <1>5, <1>6 DEF SaveSubmit, SaveReject, SaveResolve, Statuses, Steps
  <1>7. ASSUME NEW s \in Sessions, SaveApproval(s) PROVE finding' \in [Findings -> Finding]
    <2> DEFINE f == session[s].finding
    <2>1. session[s] \in Session /\ f \in Findings /\ finding[f] \in Finding
      BY <1>7, HandlerTypes DEF SaveApproval, Goto
    <2>2. [finding[f] EXCEPT !.status = "APPROVED", !.entry = session[s].seq,
                             !.editors = session[s].editors] \in Finding
      BY <2>1 DEF Finding, Session, Statuses
    <2> QED
      BY <1>1, <1>7, <2>1, <2>2 DEF SaveApproval
  <1>8. ASSUME NEW s \in Sessions, MarkSuperseded(s) PROVE finding' \in [Findings -> Finding]
    <2> DEFINE p == Prior(s)
    <2>1. session[s].finding \in Findings /\ p \in Findings /\ finding[p] \in Finding
      BY <1>8, HandlerTypes
         DEF MarkSuperseded, Finish, ReviewInv, TypeOK, Handlers, HandlerOf
    <2>2. [finding[p] EXCEPT !.status = "SUPERSEDED", !.successor = session[s].finding]
             \in Finding
      BY <2>1 DEF Finding, Statuses
    <2> QED
      BY <1>1, <1>8, <2>1, <2>2 DEF MarkSuperseded
  <1>9. ASSUME NEW s \in Sessions,
               \/ ReadHead(s)  \/ Publish(s)   \/ RefusePublication(s) \/ Announce(s)
               \/ FindPrior(s) \/ PublishSupersession(s) \/ RepeatSupersession(s) \/ Crash(s)
        PROVE  finding' = finding
    BY <1>9 DEF ReadHead, Publish, RefusePublication, Announce, FindPrior,
       PublishSupersession, RepeatSupersession, Crash
  <1>10. ASSUME NEW s \in Sessions, NEW u \in Users, NEW g \in Findings, Request(s, u, g)
         PROVE  finding' = finding
    BY <1>10 DEF Request, BeginEdit, BeginSubmit, BeginReject, BeginResolve, BeginApprove,
       BeginSupersede, BeginFinalize, Begin
  <1>11. CASE UNCHANGED vars
    BY <1>1, <1>11 DEF vars
  <1> QED
    BY <1>1, <1>2, <1>3, <1>4, <1>6, <1>7, <1>8, <1>9, <1>10, <1>11 DEF Next, Proceed

LEMMA LogTypes == ASSUME ReviewInv, [Next]_vars PROVE log' \in Seq(Publication)
  <1>1. log \in Seq(Publication)
    BY DEF ReviewInv, TypeOK
  <1>2. ASSUME NEW q, Appends(q) PROVE log' \in Seq(Publication)
    BY <1>1, <1>2 DEF Appends
  <1> QED
    BY <1>1, <1>2, LogStep, PublishAppends, SupersedeAppends

\* The request that begins a handler.
Begun(u, f, step) ==
    [IdleSession EXCEPT !.pc = step, !.user = u, !.finding = f,
                        !.editors = finding[f].editors, !.writer = finding[f].writer]

LEMMA BegunTypes ==
    ASSUME ReviewInv, NEW u \in Users, NEW f \in Findings, NEW step \in Steps
    PROVE  Begun(u, f, step) \in Session
  <1>1. finding[f] \in Finding
    BY DEF ReviewInv, TypeOK
  <1> QED
    BY <1>1 DEF Begun, IdleSession, Session, Finding

LEMMA RequestBegins ==
    ASSUME ReviewInv, NEW s \in Sessions, NEW u \in Users, NEW f \in Findings, Request(s, u, f)
    PROVE  \E step \in Steps \ {"idle"} :
               /\ Begin(s, u, f, step)
               /\ finding[f].status # "none"
               /\ step = "head" => u # finding[f].author
               /\ step \in {"resolve", "draft", "prior"} =>
                      finding[f].status \in {"APPROVED", "RESOLVED"}
               /\ step = "prior" => finding[f].supersedes # NoFinding
               /\ step \in {"edit", "submit", "reject", "resolve", "head", "draft", "prior"}
  <1>1. CASE BeginEdit(s, u, f)
    BY <1>1 DEF BeginEdit, Steps
  <1>2. CASE BeginSubmit(s, u, f)
    BY <1>2 DEF BeginSubmit, Steps
  <1>3. CASE BeginReject(s, u, f)
    BY <1>3 DEF BeginReject, Steps
  <1>4. CASE BeginResolve(s, u, f)
    BY <1>4 DEF BeginResolve, Steps
  <1>5. CASE BeginApprove(s, u, f)
    BY <1>5 DEF BeginApprove, Approvable, Steps
  <1>6. CASE BeginSupersede(s, u, f)
    BY <1>6 DEF BeginSupersede, Steps
  <1>7. CASE BeginFinalize(s, u, f)
    BY <1>7 DEF BeginFinalize, Steps
  <1> QED
    BY <1>1, <1>2, <1>3, <1>4, <1>5, <1>6, <1>7 DEF Request

BudgetType == budget \in [calls : Nat, crashes : Nat]

\* A handler's next step, its document, or its end.
LEMMA SessionStep ==
    ASSUME ReviewInv, NEW s \in Sessions, Proceed(s)
    PROVE  /\ session[s].pc # "idle"
           /\ BudgetType'
           /\ \/ session' = [session EXCEPT ![s] = IdleSession]
              \/ /\ ReadHead(s)
                 /\ session' = [session EXCEPT ![s] = [session[s] EXCEPT
                        !.head = Len(log),
                        !.pc = IF session[s].pc = "head" THEN "publish" ELSE "supersede"]]
              \/ /\ Publish(s)
                 /\ session' = [session EXCEPT ![s] = [session[s] EXCEPT
                        !.pc = "approve", !.seq = Len(log) + 1]]
              \/ /\ SaveApproval(s)
                 /\ session' = [session EXCEPT ![s] = [session[s] EXCEPT !.pc = "announce"]]
              \/ /\ Announce(s) /\ Prior(s) # NoFinding
                 /\ session' = [session EXCEPT ![s] = [session[s] EXCEPT !.pc = "prior"]]
              \/ /\ FindPrior(s)
                 /\ session' = [session EXCEPT ![s] = [session[s] EXCEPT !.pc = "priorhead"]]
              \/ /\ PublishSupersession(s) \/ RepeatSupersession(s)
                 /\ session' = [session EXCEPT ![s] = [session[s] EXCEPT !.pc = "flip"]]
  <1>0. budget \in [calls : Nat, crashes : Nat]
    BY DEF ReviewInv, TypeOK
  <1> USE <1>0 DEF BudgetType
  <1>1. CASE \/ SaveEdit(s) \/ SaveSubmit(s) \/ SaveReject(s) \/ SaveResolve(s)
             \/ RefusePublication(s) \/ DraftSuccessor(s) \/ MarkSuperseded(s)
    BY <1>1 DEF SaveEdit, SaveSubmit, SaveReject, SaveResolve, SaveStatus, RefusePublication,
       DraftSuccessor, MarkSuperseded, Finish
  <1>2. CASE ReadHead(s)
    BY <1>2 DEF ReadHead
  <1>3. CASE Publish(s)
    BY <1>3 DEF Publish
  <1>4. CASE SaveApproval(s)
    BY <1>4 DEF SaveApproval, Goto
  <1>5. CASE Announce(s)
    BY <1>5 DEF Announce, Goto, Finish
  <1>6. CASE FindPrior(s)
    BY <1>6 DEF FindPrior, Goto, Finish
  <1>7. CASE PublishSupersession(s) \/ RepeatSupersession(s)
    BY <1>7 DEF PublishSupersession, RepeatSupersession, Goto
  <1>8. CASE Crash(s)
    BY <1>8 DEF Crash
  <1> QED
    BY <1>1, <1>2, <1>3, <1>4, <1>5, <1>6, <1>7, <1>8 DEF Proceed
LEMMA SessionTypes ==
    ASSUME ReviewInv, [Next]_vars
    PROVE  session' \in [Sessions -> Session] /\ BudgetType'
  <1>1. session \in [Sessions -> Session] /\ budget \in [calls : Nat, crashes : Nat]
        /\ Len(log) \in Nat
    BY DEF ReviewInv, TypeOK
  <1>2. ASSUME NEW s \in Sessions, Proceed(s) PROVE session' \in [Sessions -> Session]
    <2>1. session[s] \in Session /\ IdleSession \in Session
      BY <1>1 DEF IdleSession, Session, Steps
    <2>2. ASSUME NEW step \in Steps PROVE [session[s] EXCEPT !.pc = step] \in Session
      BY <2>1 DEF Session
    <2>3. ASSUME NEW step \in Steps
          PROVE  [session[s] EXCEPT !.head = Len(log), !.pc = step] \in Session
      BY <1>1, <2>1 DEF Session
    <2>4. ASSUME NEW step \in Steps
          PROVE  [session[s] EXCEPT !.pc = step, !.seq = Len(log) + 1] \in Session
      <3>1. Len(log) + 1 \in Nat
        BY <1>1
      <3> QED
        BY <2>1, <3>1 DEF Session
    <2>5. /\ "publish" \in Steps  /\ "supersede" \in Steps /\ "approve" \in Steps
          /\ "announce" \in Steps /\ "prior" \in Steps     /\ "priorhead" \in Steps
          /\ "flip" \in Steps
      BY DEF Steps
    <2>6. \E r \in Session : session' = [session EXCEPT ![s] = r]
      BY <1>2, <2>1, <2>2, <2>3, <2>4, <2>5, SessionStep
    <2> QED
      BY <1>1, <2>6
  <1>3. ASSUME NEW s \in Sessions, NEW u \in Users, NEW f \in Findings, Request(s, u, f)
        PROVE  session' \in [Sessions -> Session] /\ BudgetType'
    <2>1. PICK step \in Steps : Begin(s, u, f, step)
      BY <1>3, RequestBegins
    <2>2. session' = [session EXCEPT ![s] = Begun(u, f, step)]
      BY <2>1 DEF Begin, Begun
    <2>3. budget' \in [calls : Nat, crashes : Nat]
      BY <1>1, <2>1 DEF Begin
    <2> QED
      BY <1>1, <2>2, <2>3, BegunTypes DEF BudgetType
  <1>4. ASSUME NEW u \in Users, NEW f \in Findings, CreateFinding(u, f)
        PROVE  UNCHANGED <<session, budget>>
    BY <1>4 DEF CreateFinding
  <1>5. CASE UNCHANGED vars
    BY <1>1, <1>5 DEF vars, BudgetType
  <1> QED
    BY <1>1, <1>2, <1>3, <1>4, <1>5, SessionStep DEF Next, BudgetType

LEMMA AnnouncedTypes == ASSUME ReviewInv, [Next]_vars PROVE announced' \subseteq Findings
  <1>1. announced \subseteq Findings
    BY DEF ReviewInv, TypeOK
  <1>2. ASSUME NEW s \in Sessions, Announce(s) PROVE announced' \subseteq Findings
    <2>1. session[s].pc = "announce"
      BY <1>2 DEF Announce
    <2> QED
      BY <1>1, <1>2, <2>1, HandlerTypes DEF Announce
  <1>3. ASSUME NEW s \in Sessions, Proceed(s), ~Announce(s) PROVE announced' = announced
    BY <1>3 DEF Proceed, SaveEdit, SaveSubmit, SaveReject, SaveResolve, SaveStatus, ReadHead,
       Publish, RefusePublication, SaveApproval, DraftSuccessor, FindPrior,
       PublishSupersession, RepeatSupersession, MarkSuperseded, Crash
  <1>4. ASSUME NEW s \in Sessions, NEW u \in Users, NEW f \in Findings, Request(s, u, f)
        PROVE  announced' = announced
    BY <1>4, RequestBegins DEF Begin
  <1>5. ASSUME NEW u \in Users, NEW f \in Findings, CreateFinding(u, f)
        PROVE  announced' = announced
    BY <1>5 DEF CreateFinding
  <1>6. CASE UNCHANGED vars
    BY <1>1, <1>6 DEF vars
  <1> QED
    BY <1>1, <1>2, <1>3, <1>4, <1>5, <1>6 DEF Next

LEMMA TypeStep == ASSUME ReviewInv, [Next]_vars PROVE TypeOK'
  BY FindingTypes, LogTypes, AnnouncedTypes, SessionTypes DEF TypeOK, BudgetType

----------------------------------------------------------------------------
(* Entries *)

LEMMA EntriesStep == ASSUME ReviewInv, [Next]_vars PROVE Entries'
  <1>1. log \in Seq(Publication) /\ LogGrows
    BY LogPersists DEF ReviewInv, TypeOK
  <1>2. ASSUME NEW n \in DOMAIN log PROVE EntryOf(n)'
    <2>1. log[n] \in Publication /\ log'[n] = log[n] /\ EntryOf(n)
      BY <1>1, <1>2 DEF LogGrows, ReviewInv, Entries
    <2>2. log[n].key.of \in Findings
      BY <2>1 DEF Publication, Key
    <2>3. Kept(log[n].key.of)
      BY <2>2, DocumentsKept
    <2>4. \A f, g : Follows(n, f, g) => Follows(n, f, g)'
      BY <1>1, PublicationPersists DEF Follows
    <2> QED
      BY <2>1, <2>3, <2>4 DEF EntryOf, Kept, Follows, Publishes
  <1>3. ASSUME NEW s \in Sessions, NEW q, Appends(q),
               \/ /\ q.key.kind = "supersede"
                  /\ Follows(Len(log) + 1, q.key.of, q.key.by)
               \/ /\ q.key.kind = "publish" /\ q.key.by = q.key.of
                  /\ finding'[q.key.of].status # "none"
                  /\ q.approver # finding'[q.key.of].author
        PROVE  Entries'
    <2>1. DOMAIN log' = DOMAIN log \cup {Len(log) + 1} /\ log'[Len(log) + 1] = q
          /\ Len(log) + 1 \notin DOMAIN log
      BY <1>1, <1>3 DEF Appends
    <2>2. ASSUME NEW n \in DOMAIN log' \ DOMAIN log PROVE EntryOf(n)'
      <3>1. n = Len(log) + 1 /\ log'[n] = q
        BY <2>1, <2>2
      <3>2. \A f, g : Follows(n, f, g) => Follows(n, f, g)'
        BY <1>1, PublicationPersists DEF Follows
      <3>3. PICK f, g : f = q.key.of /\ g = q.key.by
        OBVIOUS
      <3>4. CASE q.key.kind = "supersede" /\ Follows(Len(log) + 1, f, g)
        <4>1. Follows(n, f, g)'
          BY <3>1, <3>2, <3>4
        <4> QED
          BY <3>1, <3>3, <3>4, <4>1 DEF EntryOf, Follows, Publishes
      <3>5. CASE q.key.kind = "publish"
        BY <1>3, <3>1, <3>5 DEF EntryOf
      <3> QED
        BY <1>3, <3>3, <3>4, <3>5
    <2>3. ASSUME NEW m \in DOMAIN log', NEW n \in DOMAIN log', log'[m].key = log'[n].key
          PROVE  m = n
      <3>1. CASE m \in DOMAIN log /\ n \in DOMAIN log
        BY <1>1, <2>3, <3>1 DEF LogGrows, ReviewInv, Entries
      <3>2. CASE m \in DOMAIN log /\ n = Len(log) + 1
        BY <1>1, <1>3, <2>1, <2>3, <3>2 DEF LogGrows, Appends
      <3>3. CASE n \in DOMAIN log /\ m = Len(log) + 1
        BY <1>1, <1>3, <2>1, <2>3, <3>3 DEF LogGrows, Appends
      <3> QED
        BY <2>1, <3>1, <3>2, <3>3
    <2> QED
      BY <1>2, <2>1, <2>2, <2>3 DEF Entries
  <1>4. ASSUME NEW s \in Sessions, Publish(s) PROVE Entries'
    <2> DEFINE f == session[s].finding
    <2>1. Appends(Attempt(s, PublishKey(s))) /\ session[s].pc = "publish"
      BY <1>4, PublishAppends
    <2>2. f \in Findings /\ finding[f].status # "none" /\ session[s].user # finding[f].author
      BY <2>1 DEF ReviewInv, Handlers, HandlerOf
    <2>3. finding' = finding
      BY <1>4 DEF Publish
    <2>4. /\ Attempt(s, PublishKey(s)).key.by = f /\ Attempt(s, PublishKey(s)).key.of = f
          /\ Attempt(s, PublishKey(s)).key.kind = "publish"
          /\ Attempt(s, PublishKey(s)).approver = session[s].user
      BY DEF Attempt, PublishKey
    <2> QED
      BY <1>3, <2>1, <2>2, <2>3, <2>4
  <1>5. ASSUME NEW s \in Sessions, PublishSupersession(s) PROVE Entries'
    <2>1. Appends(Attempt(s, SupersedeKey(s)))
      BY <1>5, SupersedeAppends
    <2>2. /\ Attempt(s, SupersedeKey(s)).key.kind = "supersede"
          /\ Attempt(s, SupersedeKey(s)).key.of = Prior(s)
          /\ Attempt(s, SupersedeKey(s)).key.by = session[s].finding
      BY DEF Attempt, SupersedeKey
    <2>3. Follows(Len(log) + 1, Prior(s), session[s].finding)
      BY <1>5, SupersessionFollows DEF PublishSupersession, Goto
    <2> QED
      BY <1>3, <2>1, <2>2, <2>3
  <1>6. CASE log' = log
    BY <1>2, <1>6 DEF ReviewInv, Entries
  <1> QED
    BY <1>4, <1>5, <1>6, LogStep

----------------------------------------------------------------------------
(* Documents *)

\* A document that no one writes keeps what the invariant says of it.
LEMMA DocumentPersists ==
    ASSUME ReviewInv, [Next]_vars, NEW f \in Findings,
           finding'[f] = finding[f], f \in announced' => finding[f].entry # 0
    PROVE  DocumentOf(f)'
  <1>1. DocumentOf(f) /\ LogGrows
    BY LogPersists DEF ReviewInv, Documents
  <1>2. finding[f].entry # 0 => Publishes(finding[f].entry, f)'
    BY <1>1, PublicationPersists DEF DocumentOf
  <1>3. finding[f].status = "SUPERSEDED" => Superseding(f, finding[f].successor)'
    BY <1>1, SupersessionPersists DEF DocumentOf
  <1>4. ASSUME finding[f].supersedes \in Findings
        PROVE  finding'[finding[f].supersedes].entry # 0
    <2>1. finding[finding[f].supersedes].entry # 0
          /\ finding[finding[f].supersedes].status # "none"
      BY <1>1, <1>4 DEF DocumentOf, ReviewInv, Documents
    <2>2. Kept(finding[f].supersedes)
      BY <1>4, DocumentsKept
    <2> QED
      BY <2>1, <2>2 DEF Kept
  <1> QED
    BY <1>1, <1>2, <1>3, <1>4 DEF DocumentOf, Publishes, Superseding

\* What a new document refers to is approved.
LEMMA CreatedDocument ==
    ASSUME ReviewInv, [Next]_vars, NEW f \in Findings, NEW u \in Users,
           NEW p \in Findings \cup {NoFinding},
           p \in Findings => finding[p].entry # 0,
           finding[f].status = "none", finding'[f] = Draft(u, p), announced' = announced
    PROVE  DocumentOf(f)'
  <1>1. /\ finding'[f].status = "DRAFT" /\ finding'[f].author = u /\ finding'[f].writer = u
        /\ finding'[f].entry = 0 /\ finding'[f].supersedes = p
    BY DEF Draft, NoDocument
  <1>2. finding[f].entry = 0 /\ f \notin announced
    BY DEF ReviewInv, Documents, DocumentOf
  <1>3. ASSUME p \in Findings PROVE finding'[p].entry # 0
    <2>1. finding[p].status # "none"
      BY <1>3 DEF ReviewInv, Documents, DocumentOf
    <2> QED
      BY <1>3, <2>1, DocumentsKept DEF Kept
  <1> QED
    BY <1>1, <1>2, <1>3 DEF DocumentOf
\* A document that exists and is written: e is its entry afterwards, g its successor.
LEMMA WrittenDocument ==
    ASSUME ReviewInv, [Next]_vars, NEW f \in Findings, NEW e, NEW g,
           finding[f].status # "none", finding'[f].writer \in Users,
           finding'[f].entry = e, finding'[f].successor = g,
           e # 0 => Publishes(e, f),
           finding'[f].status \in {"APPROVED", "RESOLVED", "SUPERSEDED"} \/ f \in announced'
               => e # 0,
           finding'[f].status = "SUPERSEDED" => Superseding(f, g)
    PROVE  DocumentOf(f)'
  <1>1. DocumentOf(f) /\ LogGrows /\ Kept(f)
    BY LogPersists, DocumentsKept DEF ReviewInv, Documents
  <1>2. e # 0 => Publishes(e, f)'
    BY <1>1, PublicationPersists
  <1>3. finding'[f].status = "SUPERSEDED" => Superseding(f, g)'
    BY <1>1, SupersessionPersists
  <1>4. ASSUME finding'[f].supersedes \in Findings
        PROVE  finding'[finding'[f].supersedes].entry # 0
    <2>1. finding'[f].supersedes = finding[f].supersedes
      BY <1>1 DEF Kept
    <2>2. finding[finding[f].supersedes].entry # 0
          /\ finding[finding[f].supersedes].status # "none"
      BY <1>1, <1>4, <2>1 DEF DocumentOf, ReviewInv, Documents
    <2>3. Kept(finding[f].supersedes)
      BY <1>4, <2>1, DocumentsKept
    <2> QED
      BY <2>1, <2>2, <2>3 DEF Kept
  <1>5. finding'[f].status # "none" /\ finding'[f].author \in Users
    BY <1>1 DEF Kept, DocumentOf
  <1> QED
    BY <1>2, <1>3, <1>4, <1>5 DEF DocumentOf, Publishes, Superseding

LEMMA DocumentsStep ==
    ASSUME ReviewInv, [Next]_vars, NEW f \in Findings
    PROVE  DocumentOf(f)'
  <1>0. finding \in [Findings -> Finding] /\ finding[f] \in Finding /\ DocumentOf(f)
    BY DEF ReviewInv, TypeOK, Documents
  <1>1. ASSUME finding'[f] = finding[f], announced' = announced PROVE DocumentOf(f)'
    BY <1>0, <1>1, DocumentPersists DEF DocumentOf
  <1>2. ASSUME NEW u \in Users, NEW g \in Findings, CreateFinding(u, g) PROVE DocumentOf(f)'
    <2>1. CASE g = f
      BY <1>0, <1>2, <2>1, CreatedDocument, ReviewAssumption DEF CreateFinding
    <2>2. CASE g # f
      BY <1>0, <1>1, <1>2, <2>2 DEF CreateFinding
    <2> QED
      BY <2>1, <2>2
  <1>3. ASSUME NEW s \in Sessions, DraftSuccessor(s) PROVE DocumentOf(f)'
    <2>1. session[s].user \in Users /\ session[s].finding \in Findings
          /\ finding[session[s].finding].entry # 0
      BY <1>3 DEF DraftSuccessor, Finish, ReviewInv, Handlers, HandlerOf
    <2>2. PICK g \in Findings :
             /\ finding[g].status = "none"
             /\ finding' = [finding EXCEPT ![g] = Draft(session[s].user, session[s].finding)]
             /\ announced' = announced
      BY <1>3 DEF DraftSuccessor
    <2>3. CASE g = f
      BY <1>0, <2>1, <2>2, <2>3, CreatedDocument
    <2>4. CASE g # f
      BY <1>0, <1>1, <2>2, <2>4
    <2> QED
      BY <2>3, <2>4
  <1>4. ASSUME NEW s \in Sessions, SaveEdit(s) PROVE DocumentOf(f)'
    <2>1. CASE session[s].finding = f
      <3>1. finding[f].status # "none" /\ session[s].user \in Users
        BY <1>4, <2>1, HandlerTypes DEF SaveEdit, Finish
      <3>2. /\ finding'[f].writer = session[s].user /\ finding'[f].entry = finding[f].entry
            /\ finding'[f].successor = finding[f].successor
            /\ finding'[f].status = finding[f].status /\ announced' = announced
        BY <1>0, <1>4, <2>1 DEF SaveEdit, Finding
      <3> QED
        BY <1>0, <3>1, <3>2, WrittenDocument DEF DocumentOf
    <2>2. CASE session[s].finding # f
      BY <1>0, <1>1, <1>4, <2>2 DEF SaveEdit
    <2> QED
      BY <2>1, <2>2
  <1>5. ASSUME NEW s \in Sessions, NEW step \in {"submit", "reject", "resolve"},
               NEW status \in {"PENDING_REVIEW", "REJECTED", "RESOLVED"},
               status = "RESOLVED" => step = "resolve", SaveStatus(s, step, status)
        PROVE  DocumentOf(f)'
    <2>1. CASE session[s].finding = f
      <3>1. finding[f].status # "none" /\ (status = "RESOLVED" => finding[f].entry # 0)
        BY <1>5, <2>1 DEF SaveStatus, Finish, ReviewInv, Handlers, HandlerOf
      <3>2. /\ finding'[f].writer = finding[f].writer /\ finding'[f].entry = finding[f].entry
            /\ finding'[f].successor = finding[f].successor
            /\ finding'[f].status = status /\ announced' = announced
        BY <1>0, <1>5, <2>1 DEF SaveStatus, Finding
      <3> QED
        BY <1>0, <3>1, <3>2, WrittenDocument DEF DocumentOf
    <2>2. CASE session[s].finding # f
      BY <1>0, <1>1, <1>5, <2>2 DEF SaveStatus
    <2> QED
      BY <2>1, <2>2
  <1>6. ASSUME NEW s \in Sessions, SaveSubmit(s) \/ SaveReject(s) \/ SaveResolve(s)
        PROVE  DocumentOf(f)'
    BY <1>5, <1>6 DEF SaveSubmit, SaveReject, SaveResolve
  <1>7. ASSUME NEW s \in Sessions, SaveApproval(s) PROVE DocumentOf(f)'
    <2>1. CASE session[s].finding = f
      <3>1. finding[f].status # "none" /\ Publishes(session[s].seq, f)
        BY <1>7, <2>1 DEF SaveApproval, Goto, ReviewInv, Handlers, HandlerOf
      <3>2. session[s].seq # 0
        BY <3>1 DEF Publishes, ReviewInv, TypeOK
      <3>3. /\ finding'[f].writer = finding[f].writer /\ finding'[f].entry = session[s].seq
            /\ finding'[f].successor = finding[f].successor
            /\ finding'[f].status = "APPROVED" /\ announced' = announced
        BY <1>0, <1>7, <2>1 DEF SaveApproval, Finding
      <3> QED
        BY <1>0, <3>1, <3>2, <3>3, WrittenDocument DEF DocumentOf
    <2>2. CASE session[s].finding # f
      BY <1>0, <1>1, <1>7, <2>2 DEF SaveApproval
    <2> QED
      BY <2>1, <2>2
  <1>8. ASSUME NEW s \in Sessions, Announce(s) PROVE DocumentOf(f)'
    <2>1. finding[session[s].finding].entry # 0
      BY <1>8 DEF Announce, ReviewInv, Handlers, HandlerOf
    <2> QED
      BY <1>0, <1>8, <2>1, DocumentPersists DEF Announce, DocumentOf
  <1>9. ASSUME NEW s \in Sessions, MarkSuperseded(s) PROVE DocumentOf(f)'
    <2>1. CASE Prior(s) = f
      <3>1. finding[session[s].finding].supersedes = f /\ session[s].pc = "flip"
            /\ session[s].finding \in Findings
        BY <1>9, <2>1, HandlerTypes DEF MarkSuperseded, Finish, Prior
      <3>2. finding[f].entry # 0 /\ finding[f].status # "none"
        BY <1>0, <3>1 DEF ReviewInv, Documents, DocumentOf
      <3>3. Superseding(f, session[s].finding)
        BY <2>1, <3>1 DEF ReviewInv, Handlers, HandlerOf
      <3>4. /\ finding'[f].writer = finding[f].writer /\ finding'[f].entry = finding[f].entry
            /\ finding'[f].successor = session[s].finding
            /\ finding'[f].status = "SUPERSEDED" /\ announced' = announced
        BY <1>0, <1>9, <2>1 DEF MarkSuperseded, Finding
      <3> QED
        BY <1>0, <3>2, <3>3, <3>4, WrittenDocument DEF DocumentOf
    <2>2. CASE Prior(s) # f
      BY <1>0, <1>1, <1>9, <2>2 DEF MarkSuperseded
    <2> QED
      BY <2>1, <2>2
  <1>10. ASSUME NEW s \in Sessions,
                \/ ReadHead(s)  \/ Publish(s)   \/ RefusePublication(s)
                \/ FindPrior(s) \/ PublishSupersession(s) \/ RepeatSupersession(s) \/ Crash(s)
         PROVE  finding' = finding /\ announced' = announced
    BY <1>10 DEF ReadHead, Publish, RefusePublication, FindPrior, PublishSupersession,
       RepeatSupersession, Crash
  <1>11. ASSUME NEW s \in Sessions, NEW u \in Users, NEW g \in Findings, Request(s, u, g)
         PROVE  finding' = finding /\ announced' = announced
    BY <1>11, RequestBegins DEF Begin
  <1>12. CASE UNCHANGED vars
    BY <1>1, <1>12 DEF vars
  <1> QED
    BY <1>1, <1>2, <1>3, <1>4, <1>6, <1>7, <1>8, <1>9, <1>10, <1>11, <1>12 DEF Next, Proceed

----------------------------------------------------------------------------
(* Handlers *)

\* What a handler knows stays true while others write.
LEMMA HandlerPersists ==
    ASSUME ReviewInv, [Next]_vars, NEW s \in Sessions, session'[s] = session[s]
    PROVE  HandlerOf(s)'
  <1> SUFFICES ASSUME session[s].pc # "idle" PROVE HandlerOf(s)'
    BY DEF HandlerOf
  <1> DEFINE f == session[s].finding
  <1>1. HandlerOf(s) /\ LogGrows /\ f \in Findings /\ Kept(f)
    BY LogPersists, HandlerTypes, DocumentsKept DEF ReviewInv, Handlers
  <1>2. Prior(s)' = Prior(s)
    BY <1>1 DEF HandlerOf, Kept, Prior
  <1>3. session[s].pc = "approve" => Publishes(session[s].seq, f)'
    BY <1>1, PublicationPersists DEF HandlerOf
  <1>4. session[s].pc = "flip" => Superseding(Prior(s), f)'
    <2>1. \A p, g : Superseding(p, g) => Superseding(p, g)'
      BY <1>1, SupersessionPersists
    <2>2. session[s].pc = "flip" => Superseding(Prior(s), f)
      BY <1>1 DEF HandlerOf
    <2>3. f' = f
      OBVIOUS
    <2> QED
      BY <1>2, <2>1, <2>2, <2>3 DEF Superseding, Publishes
  <1> QED
    BY <1>1, <1>2, <1>3, <1>4 DEF HandlerOf, Kept, Publishes, Superseding

\* A handler that begins has read a finding that allows it.
LEMMA HandlerBegins ==
    ASSUME ReviewInv, [Next]_vars, NEW s \in Sessions, NEW u \in Users, NEW f \in Findings,
           Request(s, u, f)
    PROVE  HandlerOf(s)'
  <1>1. PICK step \in Steps \ {"idle"} :
            /\ Begin(s, u, f, step)
            /\ finding[f].status # "none"
            /\ step = "head" => u # finding[f].author
            /\ step \in {"resolve", "draft", "prior"} =>
                   finding[f].status \in {"APPROVED", "RESOLVED"}
            /\ step = "prior" => finding[f].supersedes # NoFinding
            /\ step \in {"edit", "submit", "reject", "resolve", "head", "draft", "prior"}
    BY RequestBegins
  <1>2. /\ session'[s].pc = step /\ session'[s].user = u /\ session'[s].finding = f
        /\ session'[s].writer = finding[f].writer /\ finding' = finding
    BY <1>1 DEF Begin, IdleSession, ReviewInv, TypeOK
  <1>3. finding[f] \in Finding /\ DocumentOf(f)
    BY DEF ReviewInv, TypeOK, Documents
  <1>4. Prior(s)' = finding[f].supersedes
    BY <1>2 DEF Prior
  <1>5. finding[f].writer \in Users
        /\ (step \in {"resolve", "draft", "prior"} => finding[f].entry # 0)
        /\ (step = "prior" => finding[f].supersedes \in Findings)
    BY <1>1, <1>3 DEF DocumentOf, Finding
  <1> QED
    BY <1>1, <1>2, <1>4, <1>5 DEF HandlerOf

\* Each step of a handler leaves it with what its next step needs.
LEMMA HandlerProceeds ==
    ASSUME ReviewInv, [Next]_vars, NEW s \in Sessions, Proceed(s)
    PROVE  HandlerOf(s)'
  <1> DEFINE f == session[s].finding
  <1>0. session[s].pc # "idle" /\ f \in Findings /\ session[s] \in Session
    BY SessionStep, HandlerTypes
  <1>1. HandlerOf(s) /\ LogGrows /\ Kept(f) /\ DocumentOf(f) /\ finding[f] \in Finding
    BY <1>0, LogPersists, DocumentsKept DEF ReviewInv, Handlers, Documents, TypeOK
  <1>2. CASE session' = [session EXCEPT ![s] = IdleSession]
    BY <1>2 DEF HandlerOf, IdleSession, ReviewInv, TypeOK
  <1>3. ASSUME NEW step, step # "idle",
               session'[s].pc = step, session'[s].finding = f,
               session'[s].user = session[s].user, session'[s].writer = session[s].writer,
               step = "publish" => session[s].user # finding[f].author,
               step = "approve" => Publishes(session[s].seq, f)',
               step \in {"announce", "prior", "priorhead", "supersede", "flip"} =>
                   finding'[f].entry # 0,
               step \in {"prior", "priorhead", "supersede", "flip"} =>
                   finding[f].supersedes \in Findings,
               step = "flip" => Superseding(finding[f].supersedes, f)',
               step \notin {"resolve", "draft", "head"}
        PROVE  HandlerOf(s)'
    <2>1. /\ finding'[f].status # "none" /\ finding'[f].author = finding[f].author
          /\ finding'[f].supersedes = finding[f].supersedes
      BY <1>0, <1>1, HandlerTypes DEF Kept
    <2>2. Prior(s)' = finding[f].supersedes
      BY <1>3, <2>1 DEF Prior
    <2>3. session[s].user \in Users /\ session[s].writer \in Users
      BY <1>0, HandlerTypes
    <2> QED
      BY <1>0, <1>3, <2>1, <2>2, <2>3 DEF HandlerOf, Publishes, Superseding
  <1>4. session \in [Sessions -> Session] /\ s \in DOMAIN session
    BY DEF ReviewInv, TypeOK
  <1>5. ASSUME ReadHead(s) PROVE HandlerOf(s)'
    <2>1. /\ session'[s].pc = IF session[s].pc = "head" THEN "publish" ELSE "supersede"
          /\ session'[s].finding = f /\ session'[s].user = session[s].user
          /\ session'[s].writer = session[s].writer /\ finding' = finding
          /\ session[s].pc \in {"head", "priorhead"}
      BY <1>0, <1>4, <1>5 DEF ReadHead, Session
    <2> QED
      BY <1>0, <1>1, <1>3, <2>1 DEF HandlerOf, Prior
  <1>6. ASSUME Publish(s), session' = [session EXCEPT ![s] =
                   [session[s] EXCEPT !.pc = "approve", !.seq = Len(log) + 1]]
        PROVE  HandlerOf(s)'
    <2>1. /\ session'[s].pc = "approve" /\ session'[s].finding = f
          /\ session'[s].user = session[s].user /\ session'[s].writer = session[s].writer
          /\ session'[s].seq = Len(log) + 1
      BY <1>0, <1>4, <1>6 DEF Session
    <2>2. Len(log) + 1 \in DOMAIN log' /\ log'[Len(log) + 1] = Attempt(s, PublishKey(s))
      BY <1>6, PublishAppends DEF Appends, ReviewInv, TypeOK
    <2>3. Attempt(s, PublishKey(s)).key.kind = "publish" /\ Attempt(s, PublishKey(s)).key.of = f
      BY DEF Attempt, PublishKey
    <2>4. Publishes(session[s].seq, f)'
      BY <2>1, <2>2, <2>3 DEF Publishes
    <2> QED
      BY <1>3, <2>1, <2>4
  <1>7. ASSUME SaveApproval(s),
               session' = [session EXCEPT ![s] = [session[s] EXCEPT !.pc = "announce"]]
        PROVE  HandlerOf(s)'
    <2>1. /\ session'[s].pc = "announce" /\ session'[s].finding = f
          /\ session'[s].user = session[s].user /\ session'[s].writer = session[s].writer
      BY <1>0, <1>4, <1>7 DEF Session
    <2>2. finding'[f].entry = session[s].seq
      BY <1>0, <1>1, <1>7 DEF SaveApproval, ReviewInv, TypeOK, Finding
    <2>3. session[s].seq # 0
      BY <1>1, <1>7 DEF SaveApproval, Goto, HandlerOf, Publishes, ReviewInv, TypeOK
    <2> QED
      BY <1>3, <2>1, <2>2, <2>3
  <1>8. ASSUME Announce(s), Prior(s) # NoFinding,
               session' = [session EXCEPT ![s] = [session[s] EXCEPT !.pc = "prior"]]
        PROVE  HandlerOf(s)'
    <2>1. /\ session'[s].pc = "prior" /\ session'[s].finding = f
          /\ session'[s].user = session[s].user /\ session'[s].writer = session[s].writer
      BY <1>0, <1>4, <1>8 DEF Session
    <2>2. finding[f].entry # 0 /\ finding' = finding
      BY <1>1, <1>8 DEF Announce, HandlerOf
    <2>3. finding[f].supersedes \in Findings
      BY <1>1, <1>8 DEF Prior, Finding
    <2> QED
      BY <1>3, <2>1, <2>2, <2>3
  <1>9. ASSUME FindPrior(s),
               session' = [session EXCEPT ![s] = [session[s] EXCEPT !.pc = "priorhead"]]
        PROVE  HandlerOf(s)'
    <2>1. /\ session'[s].pc = "priorhead" /\ session'[s].finding = f
          /\ session'[s].user = session[s].user /\ session'[s].writer = session[s].writer
      BY <1>0, <1>4, <1>9 DEF Session
    <2>2. finding[f].entry # 0 /\ finding[f].supersedes \in Findings /\ finding' = finding
      BY <1>1, <1>9 DEF FindPrior, HandlerOf, Prior
    <2> QED
      BY <1>3, <2>1, <2>2
  <1>10. ASSUME PublishSupersession(s) \/ RepeatSupersession(s),
                session' = [session EXCEPT ![s] = [session[s] EXCEPT !.pc = "flip"]]
         PROVE  HandlerOf(s)'
    <2>1. /\ session'[s].pc = "flip" /\ session'[s].finding = f
          /\ session'[s].user = session[s].user /\ session'[s].writer = session[s].writer
      BY <1>0, <1>4, <1>10 DEF Session
    <2>2. session[s].pc = "supersede" /\ finding' = finding /\ announced' = announced
      BY <1>10 DEF PublishSupersession, RepeatSupersession, Goto
    <2>3. PICK p \in Findings, g \in Findings : p = finding[f].supersedes /\ g = f
      BY <1>0, <1>1, <2>2 DEF HandlerOf, Prior
    <2>4. finding[g].entry # 0 /\ Prior(s) = p
          /\ Attempt(s, SupersedeKey(s)).key = [kind |-> "supersede", of |-> p, by |-> g]
      BY <1>1, <2>2, <2>3 DEF HandlerOf, Prior, Attempt, SupersedeKey
    <2>5. Superseding(p, g)'
      <3>1. CASE PublishSupersession(s)
        <4>1. log \in Seq(Publication) /\ Appends(Attempt(s, SupersedeKey(s)))
          BY <3>1, SupersedeAppends DEF ReviewInv, TypeOK
        <4>2. PICK n : n = Len(log) + 1
          OBVIOUS
        <4>3. n \in DOMAIN log' /\ log'[n].key = [kind |-> "supersede", of |-> p, by |-> g]
          BY <2>4, <4>1, <4>2 DEF Appends
        <4>4. Follows(n, p, g)
          BY <2>2, <2>3, <2>4, <4>2, SupersessionFollows
        <4>5. Follows(n, p, g)'
          BY <1>1, <4>4, PublicationPersists DEF Follows
        <4> QED
          BY <4>3, <4>5 DEF Superseding, Follows
      <3>2. CASE RepeatSupersession(s)
        <4>1. PICK n \in DOMAIN log : log[n] = Attempt(s, SupersedeKey(s))
          BY <3>2 DEF RepeatSupersession
        <4>2. Follows(n, p, g)
          BY <2>4, <4>1 DEF ReviewInv, Entries, EntryOf
        <4>3. Superseding(p, g)
          BY <2>4, <4>1, <4>2 DEF Superseding, Follows
        <4> QED
          BY <1>1, <4>3, SupersessionPersists
      <3> QED
        BY <1>10, <3>1, <3>2
    <2>6. Superseding(finding[f].supersedes, f)'
      BY <2>1, <2>2, <2>3, <2>5 DEF Superseding, Publishes
    <2> QED
      BY <1>3, <2>1, <2>2, <2>3, <2>4, <2>6
  <1> QED
    BY <1>2, <1>5, <1>6, <1>7, <1>8, <1>9, <1>10, SessionStep

LEMMA HandlersStep ==
    ASSUME ReviewInv, [Next]_vars, NEW s \in Sessions
    PROVE  HandlerOf(s)'
  <1>1. ASSUME NEW t \in Sessions, Proceed(t), t # s PROVE session'[s] = session[s]
    <2>1. \E r : session' = [session EXCEPT ![t] = r]
      BY <1>1, SessionStep
    <2> QED
      BY <1>1, <2>1 DEF ReviewInv, TypeOK
  <1>2. ASSUME NEW t \in Sessions, NEW u \in Users, NEW f \in Findings, Request(t, u, f), t # s
        PROVE  session'[s] = session[s]
    <2>1. PICK step : Begin(t, u, f, step)
      BY <1>2, RequestBegins
    <2> QED
      BY <1>2, <2>1 DEF Begin, ReviewInv, TypeOK
  <1>3. ASSUME NEW u \in Users, NEW f \in Findings, CreateFinding(u, f)
        PROVE  session' = session
    BY <1>3 DEF CreateFinding
  <1>4. CASE UNCHANGED vars
    BY <1>4, HandlerPersists DEF vars
  <1> QED
    BY <1>1, <1>2, <1>3, <1>4, HandlerPersists, HandlerBegins, HandlerProceeds DEF Next

LEMMA ReviewStep == ReviewInv /\ [Next]_vars => ReviewInv'
  BY TypeStep, DocumentsStep, EntriesStep, HandlersStep DEF ReviewInv, Documents, Handlers

LEMMA ReviewInvariant == Spec => []ReviewInv
  BY InitReview, ReviewStep, PTL DEF Spec

----------------------------------------------------------------------------
\* Every variable keeps its type, so that whatever is published has an author and a place.
THEOREM TypeCorrect == Spec => []TypeOK
  <1>1. ReviewInv => TypeOK
    BY DEF ReviewInv
  <1> QED
    BY <1>1, ReviewInvariant, PTL

\* Whatever stale copy a handler writes back, no finding is shown or announced as approved
\* without its entry, nor as superseded without the entries of all three facts.
THEOREM StatusAlwaysOnLedger == Spec => []StatusOnLedger
  <1>1. ReviewInv => StatusOnLedger
    <2> SUFFICES ASSUME ReviewInv PROVE ApprovedOnLedger /\ SupersededOnLedger
      BY DEF StatusOnLedger
    <2>1. ApprovedOnLedger
      BY DEF ApprovedOnLedger, ReviewInv, Documents, DocumentOf
    <2>2. SupersededOnLedger
      BY DEF SupersededOnLedger, ReviewInv, Documents, DocumentOf, Superseding
    <2> QED
      BY <2>1, <2>2
  <1> QED
    BY <1>1, ReviewInvariant, PTL

\* No interleaving of requests lets a user approve a finding they created.
THEOREM AuthorsNeverApprove == Spec => []AuthorsDoNotApprove
  <1>1. ReviewInv => AuthorsDoNotApprove
    BY DEF AuthorsDoNotApprove, ReviewInv, Entries, EntryOf, Publishes
  <1> QED
    BY <1>1, ReviewInvariant, PTL

\* A finding keeps the place of its entry, because its key lets it have one entry only.
THEOREM ProvenanceAlwaysFinal == Spec => ProvenanceIsFinal
  <1>1. ReviewInv /\ [Next]_vars
          => [\A f \in Findings :
                 finding[f].entry # 0 => finding'[f].entry = finding[f].entry]_vars
    <2> SUFFICES ASSUME ReviewInv, [Next]_vars, NEW f \in Findings, finding[f].entry # 0
                 PROVE  finding'[f].entry = finding[f].entry
      OBVIOUS
    <2>1. finding[f].status # "none"
      BY DEF ReviewInv, Documents, DocumentOf
    <2> QED
      BY <2>1, DocumentsKept DEF Kept
  <1> QED
    BY <1>1, ReviewInvariant, PTL DEF Spec, ProvenanceIsFinal
=============================================================================
