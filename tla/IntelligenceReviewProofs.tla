------------------------ MODULE IntelligenceReviewProofs ------------------------
(***************************************************************************)
(* What the review of intelligence guarantees, for any objects, users,     *)
(* conflicts and overlapping requests: what is committed is on the ledger  *)
(* where its object says, no refusal is lost, and a replacement is the     *)
(* entry of a rebase.                                                      *)
(***************************************************************************)
EXTENDS IntelligenceReview, SequenceTheorems, TLAPS

(* The types of documents and handlers *)

Prints == (Objects \cup Findings) \X (0 .. MaxReviews) \X Nat \X Nat \X (Nat \cup {NoToken})

RowDoc == [status : {"NONE", "COMMITTED", "FAILED"}, print : Prints \cup {<<>>}, entry : Nat]

AttemptDoc == [source : Objects, key : Keys, print : Prints, reason : Reasons,
               actual : Nat \cup {NoToken}]

ConflictDoc == [attempt : AttemptDoc, status : Active \cup Terminal, replacement : Nat]

Session == [pc : Steps, user : Users \cup {NoUser}, object : Objects \cup {NoObject},
            conflict : Nat, request : Request \cup {NoRequest}, attempt : 0 .. MaxReviews,
            seen : Nat, reason : Reasons \cup {"none"}, entry : Nat, decision : Decisions]

Budget == [reviews : 0 .. MaxReviews, marks : Nat, rebases : Nat, crashes : Nat]

Types ==
    /\ log \in Seq(Request)
    /\ row \in [Keys -> RowDoc]
    /\ conflict \in Seq(ConflictDoc)
    /\ pio \in [Objects -> PIO]
    /\ announced \subseteq Objects
    /\ session \in [Sessions -> Session]
    /\ budget \in Budget

(* The ledger and the rows of its keys *)

KeysOnce == \A m, n \in DOMAIN log : log[m].key = log[n].key => m = n

\* A committed row names the entry of its key, with the fingerprint it stores.
RowOf(k) ==
    row[k].status = "COMMITTED" =>
        /\ row[k].entry \in DOMAIN log
        /\ log[row[k].entry].key = k
        /\ Fingerprint(log[row[k].entry]) = row[k].print

Rows == \A k \in Keys : RowOf(k)

(* Conflicts *)

\* A conflict is the attempt of some request; only an approval has content of its own.
AttemptOf(c) ==
    \E q \in Request :
        /\ conflict[c].attempt.print = Fingerprint(q)
        /\ conflict[c].attempt.source = q.source
        /\ conflict[c].attempt.key = q.key
        /\ q.content # 0 => q.key = q.source

Attempts == \A c \in DOMAIN conflict : AttemptOf(c)

\* There is a conflict for the refused approval of p.
Queued(p) ==
    \E c \in DOMAIN conflict : conflict[c].attempt.key = p /\ conflict[c].attempt.source = p

\* Position n of the ledger is a rebase of conflict c.
Replaces(n, c) ==
    n \in DOMAIN log /\ log[n].rebaseOf = c /\ log[n].key # conflict[c].attempt.key

(* Objects *)

ObjectOf(p) ==
    /\ pio[p].entry # 0 => pio[p].state # "none"
    /\ pio[p].state = "passport_committed" \/ pio[p].entry # 0 \/ p \in announced
           => Approves(pio[p].entry, p)
    /\ pio[p].failure = "STALE_EXPECTED_STATE" => Queued(p)

Documents == \A p \in Objects : ObjectOf(p)

(* What a handler knows at each of its steps *)

\* An approval asks under the object's key, a rebase under another than the attempt's.
RequestOf(r) ==
    r.request # NoRequest =>
        IF r.conflict = 0
        THEN /\ r.request.key = r.object /\ r.request.source = r.object
             /\ r.request.content # 0 /\ r.request.rebaseOf = 0
        ELSE /\ r.request.content = 0 /\ r.request.rebaseOf = r.conflict
             /\ r.request.source \in Objects
             /\ r.request.key # conflict[r.conflict].attempt.key

StepOf(r) ==
    /\ r.pc \in {"check", "commit", "conflict", "insert", "failed", "save", "announce",
                 "rebased"} => r.request # NoRequest
    /\ r.pc = "head" => r.attempt # 0 /\ r.user \in Users
    /\ r.pc = "decide" => r.decision \in {"rejected", "candidate", "requires_field_verification"}
    /\ r.pc = "mark" => r.decision \in {"UNDER_REVIEW", "REJECTED", "REBASE_APPROVED"}
    /\ r.pc \in {"head", "decide", "failed", "save", "announce"} => r.conflict = 0
    /\ r.pc \in {"mark", "rebased"} => r.conflict # 0
    /\ r.pc \in {"head", "mark", "check", "commit"} => r.reason = "none"
    /\ r.pc \in {"conflict", "insert"} => r.reason \in Reasons

KnownOf(r) ==
    /\ r.pc = "save" => Approves(r.entry, r.object)
    /\ r.pc = "announce" => pio[r.object].entry # 0
    /\ r.pc = "rebased" => Replaces(r.entry, r.conflict)
    /\ r.pc = "failed" /\ r.reason # "none" => Queued(r.object)

HandlerOf(s) ==
    /\ session[s].conflict # 0 => session[s].conflict \in DOMAIN conflict
    /\ session[s].pc # "idle" =>
          /\ session[s].conflict = 0 => session[s].object \in Objects
          /\ RequestOf(session[s])
          /\ StepOf(session[s])
          /\ KnownOf(session[s])

Handlers == \A s \in Sessions : HandlerOf(s)

ReviewInv ==
    /\ Types
    /\ KeysOnce
    /\ Rows
    /\ Attempts
    /\ ReplacementOnLedger
    /\ Documents
    /\ Handlers

----------------------------------------------------------------------------
LEMMA InitReview == Init => ReviewInv
  <1> SUFFICES ASSUME Init PROVE ReviewInv
    OBVIOUS
  <1> USE DEF Init, PublicationInit, Ledger!ChainInit
  <1>1. NoRow \in RowDoc /\ NoPIO \in PIO /\ IdleSession \in Session
    BY PublicationAssumption
       DEF NoRow, RowDoc, NoPIO, PIO, States, Failures, IdleSession, Session, Steps, Decisions
  <1>2. budget \in Budget
    BY PublicationAssumption, ReviewAssumption DEF Budget
  <1>3. Types
    BY <1>1, <1>2 DEF Types
  <1>4. KeysOnce /\ Attempts /\ ReplacementOnLedger
    BY DEF KeysOnce, Attempts, ReplacementOnLedger
  <1>5. Rows
    BY DEF Rows, RowOf, NoRow
  <1>6. Documents
    BY DEF Documents, ObjectOf, NoPIO
  <1>7. Handlers
    BY DEF Handlers, HandlerOf, IdleSession
  <1> QED
    BY <1>3, <1>4, <1>5, <1>6, <1>7 DEF ReviewInv

----------------------------------------------------------------------------
(* What a handler is when it is not idle *)

LEMMA HandlerTypes ==
    ASSUME ReviewInv, NEW s \in Sessions
    PROVE  /\ session[s] \in Session
           /\ session[s].pc # "idle" /\ session[s].request # NoRequest
                  => /\ Asked(s) \in Request /\ Fingerprint(Asked(s)) \in Prints
                     /\ Asked(s).source \in Objects /\ Asked(s).key \in Keys
  <1>1. session[s] \in Session
    BY DEF ReviewInv, Types
  <1> SUFFICES ASSUME session[s].pc # "idle", session[s].request # NoRequest
               PROVE  /\ Asked(s) \in Request /\ Fingerprint(Asked(s)) \in Prints
                      /\ Asked(s).source \in Objects /\ Asked(s).key \in Keys
    BY <1>1
  <1>2. Asked(s) \in Request
    BY <1>1 DEF Session, Asked
  <1>3. Asked(s).source \in Objects
    BY DEF ReviewInv, Handlers, HandlerOf, RequestOf, Asked
  <1>4. Asked(s).key \in Keys
    BY <1>2 DEF Request
  <1>5. Fingerprint(Asked(s)) \in Prints
    BY <1>2 DEF Fingerprint, Prints, Request
  <1> QED
    BY <1>2, <1>3, <1>4, <1>5

\* The handlers whose step needs a request have one.
LEMMA HandlerAsks ==
    ASSUME ReviewInv, NEW s \in Sessions,
           session[s].pc \in {"check", "commit", "conflict", "insert", "failed", "save",
                              "announce", "rebased"}
    PROVE  /\ session[s].request # NoRequest
           /\ Asked(s) \in Request /\ Fingerprint(Asked(s)) \in Prints
           /\ Asked(s).source \in Objects /\ Asked(s).key \in Keys
  <1>1. session[s].pc # "idle" /\ session[s].request # NoRequest
    BY DEF ReviewInv, Handlers, HandlerOf, StepOf
  <1> QED
    BY <1>1, HandlerTypes

----------------------------------------------------------------------------
(* The log only grows, by entries whose keys no other has *)

Extends(q) == q \in Request /\ Ledger!Extend(q)

\* A step is one of these of a handler, or one of the two that no handler takes.
HandlerStep(s) ==
    \/ Proceed(s)
    \/ \E u \in Users, p \in Objects : Review(s, u, p)
    \/ \E u \in Users, c \in DOMAIN conflict : Operate(s, u, c)

OtherStep ==
    \/ \E u \in Users, p \in Objects : CreateIntelligence(u, p)
    \/ \E f \in Findings : OtherSource(f)
    \/ UNCHANGED vars

LEMMA Split == [Next]_vars <=> OtherStep \/ \E s \in Sessions : HandlerStep(s)
  BY DEF Next, HandlerStep, OtherStep

\* A request that begins changes only its session and a bound.
LEMMA BeginsOnly ==
    ASSUME NEW s,
           \/ \E u \in Users, p \in Objects : Review(s, u, p)
           \/ \E u \in Users, c \in DOMAIN conflict : Operate(s, u, c)
    PROVE  UNCHANGED <<log, row, conflict, pio, announced>>
  BY DEF Review, BeginApprove, BeginDecision, Operate, BeginMark, BeginRebase, Begin

LEMMA LogStep ==
    ASSUME ReviewInv, [Next]_vars
    PROVE  log' = log \/ \E q : Extends(q)
  <1>1. ASSUME NEW s \in Sessions, Proceed(s) PROVE log' = log \/ \E q : Extends(q)
    <2>1. CASE Publish(s) \/ FailCommit(s)
      <3>1. Asked(s) \in Request
        BY <2>1, HandlerAsks DEF Publish, FailCommit
      <3> QED
        BY <2>1, <3>1 DEF Publish, FailCommit, FailEntry, CommitEntry, Extends, publicationVars
    <2>2. CASE ~(Publish(s) \/ FailCommit(s))
      BY <1>1, <2>2 DEF Proceed, ReadHead, SaveDecision, Admit, RefuseReusedKey, ReturnOriginal,
         RefuseStale, RefuseUnready, LoseRace, RejectCommit, FindConflict, InsertConflict,
         SaveFailure, SaveCommit, Announce, SaveMark, RefuseMark, SaveRebased, Crash
    <2> QED
      BY <2>1, <2>2
  <1>2. ASSUME NEW f \in Findings, OtherSource(f) PROVE \E q : Extends(q)
    <2> DEFINE q == [key |-> f, source |-> f, content |-> 0, rebaseOf |-> 0,
                     expRev |-> Len(log), expHead |-> NoToken,
                     actor |-> CHOOSE u \in Users : TRUE]
    <2>1. Len(log) \in Nat
      BY DEF ReviewInv, Types
    <2>2. (CHOOSE u \in Users : TRUE) \in Users
      BY PublicationAssumption
    <2>3. q \in Request
      BY <2>1, <2>2, PublicationAssumption DEF Request, Keys
    <2> QED
      BY <1>2, <2>3 DEF OtherSource, PublishFinding, Extends
  <1>3. ASSUME NEW u \in Users, NEW p \in Objects, CreateIntelligence(u, p) PROVE log' = log
    BY <1>3 DEF CreateIntelligence
  <1> QED
    BY <1>1, <1>2, <1>3, Split, BeginsOnly DEF HandlerStep, OtherStep, vars

LogGrows ==
    /\ DOMAIN log \subseteq DOMAIN log'
    /\ \A n \in DOMAIN log : log'[n] = log[n]

\* A place that is appended to holds what was appended.
LEMMA Appended ==
    ASSUME ReviewInv, NEW q, Extends(q)
    PROVE  /\ LogGrows /\ KeysOnce' /\ log' \in Seq(Request)
           /\ Len(log) + 1 \in DOMAIN log' /\ log'[Len(log) + 1] = q
  <1>1. log \in Seq(Request) /\ KeysOnce
    BY DEF ReviewInv, Types
  <1>2. q \in Request /\ log' = Append(log, q) /\ \A n \in DOMAIN log : log[n].key # q.key
    BY DEF Extends, Ledger!Extend, Ledger!Unused
  <1>3. /\ log' \in Seq(Request)
        /\ DOMAIN log = 1 .. Len(log) /\ DOMAIN log' = 1 .. Len(log) + 1 /\ Len(log) \in Nat
        /\ log'[Len(log) + 1] = q /\ \A n \in 1 .. Len(log) : log'[n] = log[n]
    BY <1>1, <1>2
  <1>4. LogGrows
    BY <1>3 DEF LogGrows
  <1>5. KeysOnce'
    BY <1>1, <1>2, <1>3 DEF KeysOnce
  <1> QED
    BY <1>3, <1>4, <1>5

LEMMA LogPersists ==
    ASSUME ReviewInv, [Next]_vars
    PROVE  LogGrows /\ KeysOnce' /\ log' \in Seq(Request)
  BY LogStep, Appended DEF LogGrows, KeysOnce, ReviewInv, Types

LEMMA ApprovalPersists ==
    ASSUME LogGrows, NEW n, NEW p, Approves(n, p) PROVE Approves(n, p)'
  BY DEF LogGrows, Approves

----------------------------------------------------------------------------
(* Conflicts keep their attempts, and are only added to *)

ConflictsGrow ==
    /\ DOMAIN conflict \subseteq DOMAIN conflict'
    /\ \A c \in DOMAIN conflict : conflict'[c].attempt = conflict[c].attempt

\* What marking conflict c leaves behind.
LEMMA MarkFacts ==
    ASSUME ReviewInv, NEW c \in DOMAIN conflict, NEW status \in Active \cup Terminal, NEW n \in Nat,
           MarkConflict(c, status, n)
    PROVE  /\ conflict' \in Seq(ConflictDoc)
           /\ DOMAIN conflict' = DOMAIN conflict
           /\ \A d \in DOMAIN conflict \ {c} : conflict'[d] = conflict[d]
           /\ conflict'[c].attempt = conflict[c].attempt
           /\ conflict'[c].status = status
           /\ conflict'[c].replacement = IF n = 0 THEN conflict[c].replacement ELSE n
  <1> DEFINE doc == [conflict[c] EXCEPT !.status = status,
                                        !.replacement = IF n = 0 THEN @ ELSE n]
  <1>1. conflict \in Seq(ConflictDoc)
    BY DEF ReviewInv, Types
  <1>2. c \in 1 .. Len(conflict) /\ conflict[c] \in ConflictDoc
    BY <1>1
  <1>3. /\ doc \in ConflictDoc
        /\ doc.attempt = conflict[c].attempt /\ doc.status = status
        /\ doc.replacement = IF n = 0 THEN conflict[c].replacement ELSE n
    BY <1>2 DEF ConflictDoc
  <1>4. conflict' = [conflict EXCEPT ![c] = doc]
    BY DEF MarkConflict
  <1> HIDE DEF doc
  <1>5. conflict' \in Seq(ConflictDoc) /\ Len(conflict') = Len(conflict)
        /\ \A d \in 1 .. Len(conflict) : conflict'[d] = IF d = c THEN doc ELSE conflict[d]
    BY <1>1, <1>2, <1>3, <1>4, ExceptSeq
  <1> QED
    BY <1>1, <1>2, <1>3, <1>5

Marks(s) ==
    /\ session[s].pc \in {"mark", "rebased"}
    /\ IF session[s].pc = "mark" THEN MarkConflict(session[s].conflict, session[s].decision, 0)
                                 ELSE MarkConflict(session[s].conflict, "REBASED", session[s].entry)

Opens(s) == session[s].pc = "insert" /\ conflict' = Append(conflict, Conflict(Refused(s)))

LEMMA ConflictStep ==
    ASSUME ReviewInv, [Next]_vars
    PROVE  \/ conflict' = conflict
           \/ \E s \in Sessions : Marks(s) \/ Opens(s)
  <1>1. ASSUME NEW s \in Sessions, Proceed(s)
        PROVE  conflict' = conflict \/ Marks(s) \/ Opens(s)
    <2>1. CASE SaveMark(s)
      BY <2>1 DEF SaveMark, Marks
    <2>2. CASE SaveRebased(s)
      BY <2>2 DEF SaveRebased, Marks, Finish
    <2>3. CASE InsertConflict(s)
      BY <2>3 DEF InsertConflict, Opens, OpenConflict
    <2>4. CASE Publish(s) \/ FailCommit(s)
      BY <2>4 DEF Publish, FailCommit, FailEntry, CommitEntry, publicationVars
    <2>5. CASE ReadHead(s) \/ SaveDecision(s) \/ Admit(s) \/ RefuseReusedKey(s)
               \/ ReturnOriginal(s) \/ RefuseStale(s) \/ RefuseUnready(s) \/ LoseRace(s)
               \/ RejectCommit(s) \/ FindConflict(s) \/ SaveFailure(s) \/ SaveCommit(s)
               \/ Announce(s) \/ RefuseMark(s) \/ Crash(s)
      BY <2>5 DEF ReadHead, SaveDecision, Admit, RefuseReusedKey, ReturnOriginal,
         RefuseStale, RefuseUnready, LoseRace, RejectCommit, FindConflict,
         SaveFailure, SaveCommit, Announce, RefuseMark, Crash
    <2> QED
      BY <1>1, <2>1, <2>2, <2>3, <2>4, <2>5 DEF Proceed
  <1>2. OtherStep => conflict' = conflict
    BY DEF OtherStep, CreateIntelligence, OtherSource, PublishFinding, vars
  <1> QED
    BY <1>1, <1>2, Split, BeginsOnly DEF HandlerStep

\* A marking handler has a conflict and a status to give it.
LEMMA Marking ==
    ASSUME ReviewInv, NEW s \in Sessions, Marks(s)
    PROVE  LET c == session[s].conflict
               n == IF session[s].pc = "mark" THEN 0 ELSE session[s].entry
               status == IF session[s].pc = "mark" THEN session[s].decision ELSE "REBASED"
           IN  /\ c \in DOMAIN conflict
               /\ status \in Active \cup Terminal
               /\ n \in Nat
               /\ MarkConflict(c, status, n)
               /\ status = "REBASED" <=> session[s].pc = "rebased"
               /\ session[s].pc = "rebased" => Replaces(n, c) /\ n # 0
  <1>1. session[s] \in Session /\ session[s].pc \in {"mark", "rebased"} /\ HandlerOf(s)
    BY HandlerTypes DEF Marks, ReviewInv, Handlers
  <1>2. StepOf(session[s]) /\ KnownOf(session[s])
    BY <1>1 DEF HandlerOf
  <1>3. session[s].conflict \in DOMAIN conflict
    BY <1>1, <1>2 DEF HandlerOf, StepOf
  <1>4. session[s].pc = "mark" =>
            session[s].decision \in {"UNDER_REVIEW", "REJECTED", "REBASE_APPROVED"}
    BY <1>2 DEF StepOf
  <1>5. session[s].pc = "rebased" => Replaces(session[s].entry, session[s].conflict)
    BY <1>2 DEF KnownOf
  <1>6. session[s].entry \in Nat
    BY <1>1 DEF Session
  <1>7. log \in Seq(Request)
    BY DEF ReviewInv, Types
  <1>8. session[s].pc = "rebased" => session[s].entry # 0
    BY <1>5, <1>7 DEF Replaces
  <1> QED
    BY <1>1, <1>3, <1>4, <1>5, <1>6, <1>8 DEF Marks, Active, Terminal

\* A new conflict is the attempt of the request that was refused.
LEMMA Opening ==
    ASSUME ReviewInv, NEW s \in Sessions, Opens(s)
    PROVE  LET n == Len(conflict) + 1 IN
           /\ conflict' \in Seq(ConflictDoc)
           /\ ConflictsGrow
           /\ \A c \in DOMAIN conflict : conflict'[c] = conflict[c]
           /\ DOMAIN conflict' = DOMAIN conflict \cup {n}
           /\ conflict'[n].attempt.print = Fingerprint(Asked(s))
           /\ conflict'[n].attempt.source = Asked(s).source
           /\ conflict'[n].attempt.key = Asked(s).key
           /\ conflict'[n].status = "OPEN" /\ conflict'[n].replacement = 0
  <1> DEFINE doc == Conflict(Refused(s))
  <1>1. conflict \in Seq(ConflictDoc) /\ session[s] \in Session
    BY HandlerTypes DEF ReviewInv, Types
  <1>2. Asked(s) \in Request /\ Fingerprint(Asked(s)) \in Prints
        /\ Asked(s).source \in Objects /\ Asked(s).key \in Keys
    BY HandlerAsks DEF Opens
  <1>3. session[s].reason \in Reasons /\ session[s].seen \in Nat
    BY <1>1 DEF Session, ReviewInv, Handlers, HandlerOf, StepOf, Opens
  <1>4. doc \in ConflictDoc
    BY <1>2, <1>3 DEF Conflict, Refused, Attempt, ConflictDoc, AttemptDoc, Active
  <1>5. /\ doc.attempt.print = Fingerprint(Asked(s)) /\ doc.attempt.source = Asked(s).source
        /\ doc.attempt.key = Asked(s).key /\ doc.status = "OPEN" /\ doc.replacement = 0
    BY DEF Conflict, Refused, Attempt
  <1>6. conflict' = Append(conflict, doc)
    BY DEF Opens
  <1> HIDE DEF doc
  <1>7. /\ conflict' \in Seq(ConflictDoc)
        /\ DOMAIN conflict = 1 .. Len(conflict) /\ DOMAIN conflict' = 1 .. Len(conflict) + 1
        /\ Len(conflict) \in Nat /\ conflict'[Len(conflict) + 1] = doc
        /\ \A c \in 1 .. Len(conflict) : conflict'[c] = conflict[c]
    BY <1>1, <1>4, <1>6
  <1> QED
    BY <1>5, <1>7 DEF ConflictsGrow

LEMMA ConflictsPersist ==
    ASSUME ReviewInv, [Next]_vars
    PROVE  ConflictsGrow /\ conflict' \in Seq(ConflictDoc)
  <1>1. ASSUME NEW s \in Sessions, Marks(s) PROVE ConflictsGrow /\ conflict' \in Seq(ConflictDoc)
    BY <1>1, Marking, MarkFacts DEF ConflictsGrow
  <1>2. conflict \in Seq(ConflictDoc)
    BY DEF ReviewInv, Types
  <1> QED
    BY <1>1, <1>2, ConflictStep, Opening DEF ConflictsGrow

LEMMA QueuedPersists == ASSUME ConflictsGrow, NEW p, Queued(p) PROVE Queued(p)'
  BY DEF ConflictsGrow, Queued

LEMMA ReplacementPersists ==
    ASSUME LogGrows, ConflictsGrow, NEW n, NEW c \in DOMAIN conflict, Replaces(n, c)
    PROVE  Replaces(n, c)'
  BY DEF LogGrows, ConflictsGrow, Replaces

\* The request of a refused approval is for its own key, any other has no content.
LEMMA Plain ==
    ASSUME ReviewInv, NEW s \in Sessions, session[s].pc # "idle", session[s].request # NoRequest,
           Asked(s).content # 0
    PROVE  Asked(s).key = Asked(s).source /\ Asked(s).source = session[s].object
  BY DEF ReviewInv, Handlers, HandlerOf, RequestOf, Asked

LEMMA AttemptsStep == ASSUME ReviewInv, [Next]_vars PROVE Attempts'
  <1>1. ConflictsGrow
    BY ConflictsPersist
  <1>2. ASSUME NEW c \in DOMAIN conflict PROVE AttemptOf(c)'
    BY <1>1 DEF ConflictsGrow, AttemptOf, ReviewInv, Attempts
  <1>3. ASSUME NEW s \in Sessions, Opens(s), NEW n, n = Len(conflict) + 1 PROVE AttemptOf(n)'
    <2>1. /\ conflict'[n].attempt.print = Fingerprint(Asked(s))
          /\ conflict'[n].attempt.source = Asked(s).source
          /\ conflict'[n].attempt.key = Asked(s).key
      BY <1>3, Opening
    <2>2. session[s].pc = "insert"
      BY <1>3 DEF Opens
    <2>3. Asked(s) \in Request /\ (Asked(s).content # 0 => Asked(s).key = Asked(s).source)
      BY <2>2, HandlerAsks, Plain
    <2> QED
      BY <2>1, <2>3 DEF AttemptOf
  <1>4. ASSUME NEW s \in Sessions, Marks(s) PROVE DOMAIN conflict' = DOMAIN conflict
    BY <1>4, Marking, MarkFacts
  <1>5. ASSUME NEW s \in Sessions, Opens(s), NEW c \in DOMAIN conflict' PROVE AttemptOf(c)'
    BY <1>2, <1>3, <1>5, Opening
  <1> QED
    BY <1>2, <1>4, <1>5, ConflictStep DEF Attempts

LEMMA ReplacementStep == ASSUME ReviewInv, [Next]_vars PROVE ReplacementOnLedger'
  <1> DEFINE Sound(c) ==
        /\ conflict[c].status = "REBASED" => conflict[c].replacement # 0
        /\ conflict[c].replacement # 0 => Replaces(conflict[c].replacement, c)
  <1>1. LogGrows /\ ConflictsGrow
    BY LogPersists, ConflictsPersist
  <1>2. \A c \in DOMAIN conflict : Sound(c)
    BY DEF ReviewInv, ReplacementOnLedger, Replaces
  <1>3. ASSUME NEW c \in DOMAIN conflict, conflict'[c] = conflict[c] PROVE Sound(c)'
    BY <1>1, <1>2, <1>3, ReplacementPersists
  <1>4. ASSUME NEW s \in Sessions, Marks(s), NEW c \in DOMAIN conflict, c = session[s].conflict
        PROVE  Sound(c)'
    <2>1. CASE session[s].pc = "mark"
      <3>1. conflict'[c].status # "REBASED" /\ conflict'[c].replacement = conflict[c].replacement
        BY <1>4, <2>1, Marking, MarkFacts
      <3> QED
        BY <1>1, <1>2, <3>1, ReplacementPersists
    <2>2. CASE session[s].pc = "rebased"
      <3>1. session[s].entry # 0 /\ Replaces(session[s].entry, c)
            /\ conflict'[c].replacement = session[s].entry
        BY <1>4, <2>2, Marking, MarkFacts
      <3> QED
        BY <1>1, <3>1, ReplacementPersists
    <2> QED
      BY <1>4, <2>1, <2>2 DEF Marks
  <1>5. \A c \in DOMAIN conflict' : Sound(c)'
    <2>1. CASE conflict' = conflict
      BY <1>3, <2>1
    <2>2. ASSUME NEW s \in Sessions, Marks(s) PROVE \A c \in DOMAIN conflict' : Sound(c)'
      <3>1. DOMAIN conflict' = DOMAIN conflict
            /\ \A c \in DOMAIN conflict \ {session[s].conflict} : conflict'[c] = conflict[c]
        BY <2>2, Marking, MarkFacts
      <3> QED
        BY <1>3, <1>4, <2>2, <3>1
    <2>3. ASSUME NEW s \in Sessions, Opens(s) PROVE \A c \in DOMAIN conflict' : Sound(c)'
      BY <1>3, <2>3, Opening
    <2> QED
      BY <2>1, <2>2, <2>3, ConflictStep
  <1> QED
    BY <1>5 DEF ReplacementOnLedger, Replaces

----------------------------------------------------------------------------
(* Rows of keys *)

Fails(s) ==
    /\ session[s].pc \in {"commit", "conflict", "insert"}
    /\ MarkFailed(Asked(s))

Commits(s) ==
    /\ session[s].pc = "commit"
    /\ Extends(Asked(s))
    /\ row' = [row EXCEPT ![Asked(s).key] = Row("COMMITTED", Asked(s), Len(log) + 1)]

LEMMA RowStep ==
    ASSUME ReviewInv, [Next]_vars
    PROVE  row' = row \/ \E s \in Sessions : Fails(s) \/ Commits(s)
  <1>1. ASSUME NEW s \in Sessions, Proceed(s) PROVE row' = row \/ Fails(s) \/ Commits(s)
    <2>1. CASE Publish(s) \/ FailCommit(s)
      <3>1. Asked(s) \in Request /\ session[s].pc = "commit"
        BY <2>1, HandlerAsks DEF Publish, FailCommit
      <3> QED
        BY <2>1, <3>1 DEF Publish, FailCommit, FailEntry, CommitEntry, publicationVars, Extends,
           Fails, Commits
    <2>2. CASE RejectCommit(s) \/ FindConflict(s) \/ InsertConflict(s)
      BY <2>2 DEF RejectCommit, FindConflict, InsertConflict, AfterConflict, Fails
    <2>3. CASE ~(Publish(s) \/ FailCommit(s) \/ RejectCommit(s) \/ FindConflict(s)
                 \/ InsertConflict(s))
      BY <1>1, <2>3 DEF Proceed, ReadHead, SaveDecision, Admit, RefuseReusedKey, ReturnOriginal,
         RefuseStale, RefuseUnready, LoseRace, SaveFailure, SaveCommit, Announce, SaveMark,
         RefuseMark, SaveRebased, Crash
    <2> QED
      BY <2>1, <2>2, <2>3
  <1>2. OtherStep => row' = row
    BY DEF OtherStep, CreateIntelligence, OtherSource, PublishFinding, vars
  <1> QED
    BY <1>1, <1>2, Split, BeginsOnly DEF HandlerStep

LEMMA RowsStep ==
    ASSUME ReviewInv, [Next]_vars
    PROVE  Rows' /\ row' \in [Keys -> RowDoc]
  <1>1. LogGrows
    BY LogPersists
  <1>2. row \in [Keys -> RowDoc] /\ Rows
    BY DEF ReviewInv, Types
  <1>3. ASSUME NEW k \in Keys, row'[k] = row[k] PROVE RowOf(k)'
    BY <1>1, <1>2, <1>3 DEF Rows, RowOf, LogGrows, Fingerprint
  <1>4. CASE row' = row
    BY <1>2, <1>3, <1>4 DEF Rows
  <1>5. ASSUME NEW s \in Sessions, Fails(s) PROVE Rows' /\ row' \in [Keys -> RowDoc]
    <2> DEFINE k == Asked(s).key
               doc == [row[k] EXCEPT !.status = "FAILED", !.print = Fingerprint(Asked(s))]
    <2>1. k \in Keys /\ Fingerprint(Asked(s)) \in Prints
      BY <1>5, HandlerAsks DEF Fails
    <2>2. doc \in RowDoc /\ doc.status = "FAILED"
      BY <1>2, <2>1 DEF RowDoc
    <2>3. row' = [row EXCEPT ![k] = doc]
      BY <1>5 DEF Fails, MarkFailed
    <2>4. /\ row'[k].status = "FAILED" /\ row' \in [Keys -> RowDoc]
          /\ \A j \in Keys \ {k} : row'[j] = row[j]
      BY <1>2, <2>1, <2>2, <2>3
    <2> HIDE DEF doc, k
    <2>5. ASSUME NEW j \in Keys, j = k PROVE RowOf(j)'
      BY <2>4, <2>5 DEF RowOf
    <2> QED
      BY <1>3, <2>4, <2>5 DEF Rows
  <1>6. ASSUME NEW s \in Sessions, Commits(s) PROVE Rows' /\ row' \in [Keys -> RowDoc]
    <2> DEFINE k == Asked(s).key
               doc == Row("COMMITTED", Asked(s), Len(log) + 1)
    <2>1. k \in Keys /\ Fingerprint(Asked(s)) \in Prints
      BY <1>6, HandlerAsks DEF Commits
    <2>2. Len(log) + 1 \in Nat
      BY DEF ReviewInv, Types
    <2>3. doc \in RowDoc /\ doc.entry = Len(log) + 1 /\ doc.print = Fingerprint(Asked(s))
      BY <2>1, <2>2 DEF RowDoc, Row
    <2>4. row' = [row EXCEPT ![k] = doc]
      BY <1>6 DEF Commits
    <2>5. Len(log) + 1 \in DOMAIN log' /\ log'[Len(log) + 1] = Asked(s)
      BY <1>6, Appended DEF Commits
    <2>6. \A j \in Keys \ {k} : row'[j] = row[j]
      BY <1>2, <2>4
    <2>7. row'[k] = doc /\ row' \in [Keys -> RowDoc]
      BY <1>2, <2>1, <2>3, <2>4
    <2>8. ASSUME NEW j \in Keys, j = k PROVE RowOf(j)'
      <3>1. log'[doc.entry] = Asked(s) /\ doc.entry \in DOMAIN log' /\ row'[j] = doc
        BY <2>3, <2>5, <2>7, <2>8
      <3>2. Fingerprint(log'[doc.entry]) = doc.print /\ log'[doc.entry].key = j
        BY <2>3, <2>8, <3>1
      <3> HIDE DEF doc
      <3> QED
        BY <3>1, <3>2 DEF RowOf, Fingerprint
    <2> QED
      BY <1>3, <2>6, <2>7, <2>8 DEF Rows
  <1> QED
    BY <1>4, <1>5, <1>6, RowStep

----------------------------------------------------------------------------
(* Handlers: what a step makes of the one that takes it *)

Becomes(s, r) == session' = [session EXCEPT ![s] = r]

\* What an approval asks of the ledger.
Approval(s) ==
    [key |-> session[s].object, source |-> session[s].object, content |-> session[s].attempt,
     rebaseOf |-> 0, expRev |-> Len(log), expHead |-> IF Len(log) = 0 THEN NoToken ELSE Len(log),
     actor |-> session[s].user]

\* Where an answer of the ledger leads.
Answered(s) == IF session[s].conflict # 0 THEN "rebased" ELSE "save"

\* The steps of a handler that is in state h, and what they make of it.
Moves(s, h) ==
    \/ Becomes(s, IdleSession)
    \/ /\ h.pc = "head"
       /\ Becomes(s, [h EXCEPT !.pc = "check", !.request = Approval(s)])
    \/ /\ h.pc = "check"
       /\ Becomes(s, [h EXCEPT !.pc = "commit", !.seen = Len(log)])
    \/ /\ h.pc = "check" /\ AlreadyCommitted(Asked(s))
       /\ Becomes(s, [h EXCEPT !.entry = row[Asked(s).key].entry, !.pc = Answered(s)])
    \/ /\ h.pc = "check"
       /\ Becomes(s, [h EXCEPT !.pc = "conflict", !.seen = Len(log),
                               !.reason = "STALE_EXPECTED_STATE"])
    \/ /\ h.pc = "commit"
       /\ Becomes(s, [h EXCEPT !.pc = "conflict", !.reason = "CAS_RACE_STALE"])
    \/ /\ h.pc = "commit" /\ Extends(Asked(s))
       /\ Becomes(s, [h EXCEPT !.entry = Len(log) + 1, !.pc = Answered(s)])
    \/ /\ h.pc = "conflict"
       /\ Becomes(s, [h EXCEPT !.pc = "insert"])
    \/ /\ h.pc \in {"check", "commit", "conflict", "insert"}
       /\ h.conflict = 0
       /\ h.pc = "conflict" => ActiveFor(Refused(s)) # {}
       /\ h.pc = "insert" => Opens(s) \/ ActiveFor(Refused(s)) # {}
       /\ Becomes(s, [h EXCEPT !.pc = "failed"])
    \/ /\ h.pc = "save" /\ SaveCommit(s)
       /\ Becomes(s, [h EXCEPT !.pc = "announce"])
    \/ /\ h.pc = "mark" /\ h.request # NoRequest
       /\ Becomes(s, [h EXCEPT !.pc = "check"])

LEMMA HandlerMoves ==
    ASSUME ReviewInv, NEW s \in Sessions, Proceed(s), NEW h, h = session[s]
    PROVE  h.pc # "idle" /\ Moves(s, h)
  <1> USE DEF Becomes, Moves
  <1>1. CASE SaveDecision(s) \/ RefuseReusedKey(s) \/ SaveFailure(s) \/ Announce(s)
             \/ RefuseMark(s) \/ SaveRebased(s) \/ Crash(s)
    BY <1>1 DEF SaveDecision, RefuseReusedKey, SaveFailure, Announce, RefuseMark, SaveRebased,
       Crash, Finish
  <1>2. CASE ReadHead(s)
    <2>1. session[s] \in Session
      BY HandlerTypes
    <2>2. session[s].pc = "head"
      BY <1>2 DEF ReadHead
    <2>3. Becomes(s, [session[s] EXCEPT !.pc = "check", !.request = Approval(s)])
      BY <1>2, <2>1 DEF ReadHead, Approval, ReviewInv, Types, Session
    <2> QED
      BY <2>2, <2>3
  <1>3. CASE Admit(s)
    BY <1>3 DEF Admit, ReviewInv, Types
  <1>4. CASE ReturnOriginal(s)
    BY <1>4 DEF ReturnOriginal, Answered, Rebasing, ReviewInv, Types
  <1>5. CASE RefuseStale(s)
    BY <1>5 DEF RefuseStale, ReviewInv, Types
  <1>6. CASE RefuseUnready(s) \/ RejectCommit(s) \/ FailCommit(s)
    BY <1>6 DEF RefuseUnready, RejectCommit, FailCommit, Raised, Rebasing
  <1>7. CASE Publish(s)
    <2>1. Extends(Asked(s)) /\ session[s].pc = "commit"
      BY <1>7, HandlerAsks DEF Publish, CommitEntry, Extends
    <2> QED
      BY <1>7, <2>1 DEF Publish, Answered, Rebasing, ReviewInv, Types
  <1>8. CASE LoseRace(s)
    BY <1>8 DEF LoseRace, ReviewInv, Types
  <1>9. CASE FindConflict(s)
    BY <1>9 DEF FindConflict, AfterConflict, Raised, Rebasing, Goto
  <1>10. CASE InsertConflict(s)
    BY <1>10 DEF InsertConflict, AfterConflict, Raised, Rebasing, Opens, OpenConflict
  <1>11. CASE SaveCommit(s)
    BY <1>11 DEF SaveCommit, Goto
  <1>12. CASE SaveMark(s)
    BY <1>12 DEF SaveMark
  <1> QED
    BY <1>1, <1>2, <1>3, <1>4, <1>5, <1>6, <1>7, <1>8, <1>9, <1>10, <1>11, <1>12 DEF Proceed

\* Where a request begins: at the head, with a decision, or with a conflict.
LEMMA HandlerBegins ==
    ASSUME ReviewInv, NEW s \in Sessions,
           \/ \E u \in Users, p \in Objects : Review(s, u, p)
           \/ \E u \in Users, c \in DOMAIN conflict : Operate(s, u, c)
    PROVE  \E r \in Session :
              /\ Becomes(s, r)
              /\ r.pc \in {"head", "decide", "mark"}
              /\ r.conflict = 0 => r.object \in Objects
              /\ r.conflict # 0 => r.conflict \in DOMAIN conflict
              /\ RequestOf(r) /\ StepOf(r)
  <1> USE DEF Becomes
  <1>0. budget \in Budget /\ conflict \in Seq(ConflictDoc) /\ MaxReviews \in Nat
        /\ Len(log) \in Nat /\ IdleSession \in Session /\ NoObject \notin Objects
    BY PublicationAssumption, ReviewAssumption
       DEF ReviewInv, Types, IdleSession, Session, Steps, Decisions
  <1>1. ASSUME NEW u \in Users, NEW p \in Objects, BeginApprove(s, u, p)
        PROVE  \E r \in Session :
                  /\ Becomes(s, r) /\ r.pc = "head" /\ r.conflict = 0 /\ r.object \in Objects
                  /\ RequestOf(r) /\ StepOf(r)
    <2> DEFINE r == [IdleSession EXCEPT !.pc = "head", !.user = u, !.object = p,
                                        !.attempt = MaxReviews + 1 - budget.reviews]
    <2>1. budget.reviews \in 1 .. MaxReviews
      BY <1>0, <1>1 DEF BeginApprove, Begin, Budget
    <2>2. MaxReviews + 1 - budget.reviews \in 1 .. MaxReviews
      BY <1>0, <2>1
    <2>3. r \in Session
      <3>1. ASSUME NEW n \in 0 .. MaxReviews
            PROVE  [IdleSession EXCEPT !.pc = "head", !.user = u, !.object = p, !.attempt = n]
                      \in Session
        BY <1>0 DEF Session, Steps
      <3>2. MaxReviews + 1 - budget.reviews \in 0 .. MaxReviews
        BY <2>2
      <3> QED
        BY <3>1, <3>2
    <2>4. r.pc = "head" /\ r.conflict = 0 /\ r.object = p /\ RequestOf(r) /\ StepOf(r)
      BY <2>2 DEF IdleSession, RequestOf, StepOf
    <2>5. Becomes(s, r)
      BY <1>1 DEF BeginApprove, Begin
    <2> QED
      BY <2>3, <2>4, <2>5
  <1>2. ASSUME NEW u \in Users, NEW p \in Objects,
               NEW state \in {"rejected", "candidate", "requires_field_verification"},
               BeginDecision(s, u, p, state)
        PROVE  \E r \in Session :
                  /\ Becomes(s, r) /\ r.pc = "decide" /\ r.conflict = 0 /\ r.object \in Objects
                  /\ RequestOf(r) /\ StepOf(r)
    <2> DEFINE r == [IdleSession EXCEPT !.pc = "decide", !.user = u, !.object = p,
                                        !.decision = state]
    <2>1. r \in Session
      BY <1>0 DEF Session, Steps, Decisions
    <2>2. r.pc = "decide" /\ r.conflict = 0 /\ r.object = p /\ RequestOf(r) /\ StepOf(r)
      BY DEF IdleSession, RequestOf, StepOf
    <2>3. Becomes(s, r)
      BY <1>2 DEF BeginDecision, Begin
    <2> QED
      BY <2>1, <2>2, <2>3
  <1>3. ASSUME NEW u \in Users, NEW c \in DOMAIN conflict,
               NEW status \in {"UNDER_REVIEW", "REJECTED"}, BeginMark(s, u, c, status)
        PROVE  \E r \in Session :
                  /\ Becomes(s, r) /\ r.pc = "mark" /\ r.conflict # 0
                  /\ r.conflict \in DOMAIN conflict /\ RequestOf(r) /\ StepOf(r)
    <2> DEFINE r == [IdleSession EXCEPT !.pc = "mark", !.user = u, !.conflict = c,
                                        !.decision = status]
    <2>1. c \in Nat /\ c # 0
      BY <1>0
    <2>2. r \in Session
      BY <1>0, <2>1 DEF Session, Steps, Decisions
    <2>3. r.pc = "mark" /\ r.conflict = c /\ RequestOf(r) /\ StepOf(r)
      BY <2>1 DEF IdleSession, RequestOf, StepOf
    <2>4. Becomes(s, r)
      BY <1>3 DEF BeginMark, Begin
    <2> QED
      BY <2>1, <2>2, <2>3, <2>4
  <1>4. ASSUME NEW u \in Users, NEW c \in DOMAIN conflict, NEW key \in RebaseKeys,
               NEW rev \in 0 .. Len(log), BeginRebase(s, u, c, key, rev)
        PROVE  \E r \in Session :
                  /\ Becomes(s, r) /\ r.pc = "mark" /\ r.conflict # 0
                  /\ r.conflict \in DOMAIN conflict /\ RequestOf(r) /\ StepOf(r)
    <2> DEFINE q == [key |-> key, source |-> conflict[c].attempt.source, content |-> 0,
                     rebaseOf |-> c, expRev |-> rev, expHead |-> NoToken, actor |-> u]
               r == [IdleSession EXCEPT !.pc = "mark", !.user = u, !.conflict = c,
                                        !.decision = "REBASE_APPROVED", !.request = q]
    <2>1. c \in Nat /\ c # 0 /\ conflict[c] \in ConflictDoc
      BY <1>0
    <2>2. conflict[c].attempt.source \in Objects /\ key # conflict[c].attempt.key
      BY <1>4, <2>1 DEF BeginRebase, ConflictDoc, AttemptDoc
    <2>3. q \in Request
      BY <1>0, <2>1, <2>2 DEF Request, Keys
    <2>4. r \in Session
      BY <1>0, <2>1, <2>3 DEF Session, Steps, Decisions
    <2>5. r.pc = "mark" /\ r.conflict = c /\ StepOf(r) /\ r.request = q
      BY <2>1 DEF IdleSession, StepOf
    <2>6. RequestOf(r)
      BY <2>1, <2>2, <2>5 DEF RequestOf
    <2>7. Becomes(s, r)
      BY <1>4 DEF BeginRebase, Begin
    <2> QED
      BY <2>1, <2>4, <2>5, <2>6, <2>7
  <1> HIDE DEF Becomes
  <1>5. ASSUME NEW u \in Users, NEW p \in Objects, Review(s, u, p)
        PROVE  \E r \in Session :
                  /\ Becomes(s, r) /\ r.pc \in {"head", "decide"} /\ r.conflict = 0
                  /\ r.object \in Objects /\ RequestOf(r) /\ StepOf(r)
    BY <1>1, <1>2, <1>5 DEF Review
  <1>6. ASSUME NEW u \in Users, NEW c \in DOMAIN conflict, Operate(s, u, c)
        PROVE  \E r \in Session :
                  /\ Becomes(s, r) /\ r.pc = "mark" /\ r.conflict # 0
                  /\ r.conflict \in DOMAIN conflict /\ RequestOf(r) /\ StepOf(r)
    BY <1>3, <1>4, <1>6 DEF Operate
  <1> QED
    BY <1>5, <1>6

LEMMA HandlerSteps ==
    ASSUME ReviewInv, NEW s \in Sessions, Proceed(s)
    PROVE  \E r \in Session : Becomes(s, r)
  <1>1. session[s] \in Session /\ IdleSession \in Session /\ Len(log) \in Nat
        /\ Len(log) + 1 \in Nat
    BY HandlerTypes, PublicationAssumption
       DEF ReviewInv, Types, IdleSession, Session, Steps, Decisions
  <1>2. ASSUME NEW step \in Steps PROVE [session[s] EXCEPT !.pc = step] \in Session
    BY <1>1 DEF Session
  <1>3. {"check", "commit", "conflict", "insert", "failed", "save", "announce", "rebased"}
           \subseteq Steps
    BY DEF Steps
  <1>4. ASSUME session[s].pc = "head"
        PROVE  [session[s] EXCEPT !.pc = "check", !.request = Approval(s)] \in Session
    <2>1. session[s].conflict = 0 /\ session[s].object \in Objects /\ session[s].user \in Users
      BY <1>4 DEF ReviewInv, Handlers, HandlerOf, StepOf
    <2>2. session[s].attempt \in 0 .. MaxReviews
      BY <1>1 DEF Session
    <2>3. Approval(s) \in Request
      BY <1>1, <2>1, <2>2 DEF Approval, Request, Keys
    <2> QED
      BY <1>1, <1>3, <2>3 DEF Session
  <1>5. [session[s] EXCEPT !.pc = "commit", !.seen = Len(log)] \in Session
    BY <1>1, <1>3 DEF Session
  <1>6. /\ [session[s] EXCEPT !.pc = "conflict", !.seen = Len(log),
                              !.reason = "STALE_EXPECTED_STATE"] \in Session
        /\ [session[s] EXCEPT !.pc = "conflict", !.reason = "CAS_RACE_STALE"] \in Session
    BY <1>1, <1>3 DEF Session, Reasons
  <1>7. Answered(s) \in Steps
    BY <1>3 DEF Answered
  <1>8. ASSUME NEW n \in Nat PROVE [session[s] EXCEPT !.entry = n, !.pc = Answered(s)] \in Session
    BY <1>1, <1>7 DEF Session
  <1>9. ASSUME session[s].pc = "check" PROVE row[Asked(s).key].entry \in Nat
    <2>1. Asked(s).key \in Keys
      BY <1>9, HandlerAsks
    <2> QED
      BY <2>1 DEF ReviewInv, Types, RowDoc
  <1> QED
    BY <1>1, <1>2, <1>3, <1>4, <1>5, <1>6, <1>8, <1>9, HandlerMoves DEF Moves

LEMMA SessionTypes ==
    ASSUME ReviewInv, [Next]_vars
    PROVE  /\ session' \in [Sessions -> Session]
           /\ \/ session' = session
              \/ \E s \in Sessions, r \in Session : HandlerStep(s) /\ Becomes(s, r)
  <1>1. session \in [Sessions -> Session]
    BY DEF ReviewInv, Types
  <1>2. ASSUME NEW s \in Sessions, HandlerStep(s) PROVE \E r \in Session : Becomes(s, r)
    BY <1>2, HandlerSteps, HandlerBegins DEF HandlerStep
  <1>3. OtherStep => session' = session
    BY DEF OtherStep, CreateIntelligence, OtherSource, vars
  <1> QED
    BY <1>1, <1>2, <1>3, Split DEF Becomes

LEMMA BudgetTypes == ASSUME ReviewInv, [Next]_vars PROVE budget' \in Budget
  <1>1. budget \in Budget /\ MaxReviews \in Nat
    BY PublicationAssumption DEF ReviewInv, Types
  <1>2. ASSUME NEW k \in {"reviews", "marks", "rebases", "crashes"}, budget[k] > 0,
               budget' = [budget EXCEPT ![k] = @ - 1]
        PROVE  budget' \in Budget
    BY <1>1, <1>2 DEF Budget
  <1>3. ASSUME NEW s \in Sessions, FailCommit(s) \/ Crash(s) PROVE budget' \in Budget
    <2>1. budget.crashes > 0 /\ budget' = [budget EXCEPT !.crashes = @ - 1]
      BY <1>3 DEF FailCommit, Crash
    <2> QED
      BY <1>1, <2>1 DEF Budget
  <1>4. ASSUME NEW s \in Sessions, Proceed(s), ~FailCommit(s), ~Crash(s) PROVE budget' = budget
    BY <1>4 DEF Proceed, ReadHead, SaveDecision, Admit, RefuseReusedKey, ReturnOriginal,
       RefuseStale, RefuseUnready, Publish, LoseRace, RejectCommit, FindConflict, InsertConflict,
       SaveFailure, SaveCommit, Announce, SaveMark, RefuseMark, SaveRebased
  <1>5. ASSUME NEW s \in Sessions,
               \/ \E u \in Users, p \in Objects : Review(s, u, p)
               \/ \E u \in Users, c \in DOMAIN conflict : Operate(s, u, c)
        PROVE  budget' \in Budget
    BY <1>2, <1>5
       DEF Review, BeginApprove, BeginDecision, Operate, BeginMark, BeginRebase, Begin
  <1>6. OtherStep => budget' = budget
    BY DEF OtherStep, CreateIntelligence, OtherSource, vars
  <1> QED
    BY <1>1, <1>3, <1>4, <1>5, <1>6, Split DEF HandlerStep

----------------------------------------------------------------------------
(* Objects *)

WritesObject(s) == SaveDecision(s) \/ SaveFailure(s) \/ SaveCommit(s) \/ Announce(s)

LEMMA ObjectStep ==
    ASSUME [Next]_vars
    PROVE  \/ UNCHANGED <<pio, announced>>
           \/ \E u \in Users, p \in Objects : CreateIntelligence(u, p)
           \/ \E s \in Sessions : WritesObject(s)
  <1>1. ASSUME NEW s \in Sessions, Proceed(s)
        PROVE  UNCHANGED <<pio, announced>> \/ WritesObject(s)
    BY <1>1 DEF Proceed, WritesObject, ReadHead, Admit, RefuseReusedKey, ReturnOriginal,
       RefuseStale, RefuseUnready, Publish, LoseRace, RejectCommit, FailCommit, FindConflict,
       InsertConflict, SaveMark, RefuseMark, SaveRebased, Crash
  <1>2. OtherStep => \/ UNCHANGED <<pio, announced>>
                     \/ \E u \in Users, p \in Objects : CreateIntelligence(u, p)
    BY DEF OtherStep, OtherSource, vars
  <1> QED
    BY <1>1, <1>2, Split, BeginsOnly DEF HandlerStep

\* What a handler that writes an object knows.
LEMMA Writer ==
    ASSUME ReviewInv, NEW s \in Sessions, WritesObject(s)
    PROVE  LET p == session[s].object IN
           /\ p \in Objects /\ session[s] \in Session
           /\ SaveDecision(s) => session[s].decision
                                   \in {"rejected", "candidate", "requires_field_verification"}
           /\ SaveFailure(s) /\ session[s].reason # "none" => Queued(p)
           /\ SaveCommit(s) => Approves(session[s].entry, p)
           /\ Announce(s) => pio[p].entry # 0
  <1>1. /\ session[s].pc \in {"decide", "failed", "save", "announce"}
        /\ SaveDecision(s) => session[s].pc = "decide"
        /\ SaveFailure(s) => session[s].pc = "failed"
        /\ SaveCommit(s) => session[s].pc = "save"
        /\ Announce(s) => session[s].pc = "announce"
    BY DEF WritesObject, SaveDecision, SaveFailure, SaveCommit, Announce, Finish, Goto
  <1>2. StepOf(session[s]) /\ KnownOf(session[s]) /\ HandlerOf(s)
    BY <1>1 DEF ReviewInv, Handlers, HandlerOf
  <1>3. session[s].conflict = 0 /\ session[s].object \in Objects
    BY <1>1, <1>2 DEF StepOf, HandlerOf
  <1> QED
    BY <1>1, <1>2, <1>3, HandlerTypes DEF StepOf, KnownOf

\* An object is approved on the ledger once, because its key is its own.
LEMMA OneApproval ==
    ASSUME ReviewInv, NEW p, NEW m, NEW n, Approves(m, p), Approves(n, p) PROVE m = n
  BY DEF ReviewInv, KeysOnce, Approves

\* The document a step leaves behind.
LEMMA ObjectWritten ==
    ASSUME ReviewInv, NEW s \in Sessions, WritesObject(s)
    PROVE  LET p == session[s].object IN
           /\ pio' \in [Objects -> PIO]
           /\ \A o \in Objects \ {p} : pio'[o] = pio[o]
           /\ SaveDecision(s) => /\ pio'[p] = [pio[p] EXCEPT !.state = session[s].decision]
                                 /\ announced' = announced
           /\ SaveFailure(s) => /\ pio'[p] = [pio[p] EXCEPT
                                       !.state = "publication_failed",
                                       !.failure = IF session[s].reason = "none"
                                                   THEN "FAILED" ELSE "STALE_EXPECTED_STATE"]
                                /\ announced' = announced
           /\ SaveCommit(s) => /\ pio'[p] = [pio[p] EXCEPT !.state = "passport_committed",
                                               !.entry = session[s].entry, !.failure = "none"]
                               /\ announced' = announced
           /\ Announce(s) => pio' = pio /\ announced' = announced \cup {p}
  <1> DEFINE p == session[s].object
  <1>1. p \in Objects /\ session[s] \in Session /\ pio \in [Objects -> PIO] /\ pio[p] \in PIO
    BY Writer DEF ReviewInv, Types
  <1>2. CASE SaveDecision(s)
    <2>1. [pio[p] EXCEPT !.state = session[s].decision] \in PIO
      BY <1>1, <1>2, Writer DEF PIO, States
    <2>2. pio' = [pio EXCEPT ![p] = [pio[p] EXCEPT !.state = session[s].decision]]
          /\ announced' = announced /\ session[s].pc = "decide"
      BY <1>2 DEF SaveDecision, Finish
    <2> QED
      BY <1>1, <2>1, <2>2 DEF SaveFailure, SaveCommit, Announce, SaveDecision, Finish, Goto
  <1>3. CASE SaveFailure(s)
    <2> DEFINE doc == [pio[p] EXCEPT !.state = "publication_failed",
                          !.failure = IF session[s].reason = "none"
                                      THEN "FAILED" ELSE "STALE_EXPECTED_STATE"]
    <2>1. doc \in PIO
      BY <1>1 DEF PIO, States, Failures
    <2>2. pio' = [pio EXCEPT ![p] = doc] /\ announced' = announced /\ session[s].pc = "failed"
      BY <1>3 DEF SaveFailure, Finish
    <2> QED
      BY <1>1, <2>1, <2>2 DEF SaveDecision, SaveCommit, Announce, Finish, Goto
  <1>4. CASE SaveCommit(s)
    <2> DEFINE doc == [pio[p] EXCEPT !.state = "passport_committed",
                                     !.entry = session[s].entry, !.failure = "none"]
    <2>1. doc \in PIO
      BY <1>1 DEF PIO, States, Failures, Session
    <2>2. pio' = [pio EXCEPT ![p] = doc] /\ announced' = announced /\ session[s].pc = "save"
      BY <1>4 DEF SaveCommit, Goto
    <2> QED
      BY <1>1, <2>1, <2>2 DEF SaveDecision, SaveFailure, Announce, Finish, Goto
  <1>5. CASE Announce(s)
    <2>1. pio' = pio /\ announced' = announced \cup {p} /\ session[s].pc = "announce"
      BY <1>5 DEF Announce, Finish
    <2> QED
      BY <1>1, <2>1 DEF SaveDecision, SaveFailure, SaveCommit, Finish, Goto
  <1> QED
    BY <1>2, <1>3, <1>4, <1>5 DEF WritesObject

\* Where the ledger holds an object is never said otherwise.
LEMMA ReferencesKept ==
    ASSUME ReviewInv, [Next]_vars, NEW p \in Objects, pio[p].entry # 0
    PROVE  pio'[p].entry = pio[p].entry
  <1>1. pio \in [Objects -> PIO] /\ pio[p] \in PIO /\ pio[p].state # "none"
        /\ Approves(pio[p].entry, p)
    BY DEF ReviewInv, Types, Documents, ObjectOf
  <1>2. ASSUME NEW u \in Users, NEW o \in Objects, CreateIntelligence(u, o)
        PROVE  pio'[p].entry = pio[p].entry
    BY <1>1, <1>2 DEF CreateIntelligence
  <1>3. ASSUME NEW s \in Sessions, WritesObject(s) PROVE pio'[p].entry = pio[p].entry
    <2>1. CASE p # session[s].object
      BY <1>3, <2>1, ObjectWritten
    <2>2. CASE p = session[s].object /\ SaveCommit(s)
      <3>0. pio'[p] = [pio[p] EXCEPT !.state = "passport_committed",
                                     !.entry = session[s].entry, !.failure = "none"]
        BY <1>3, <2>2, ObjectWritten
      <3>1. pio'[p].entry = session[s].entry
        BY <1>1, <3>0 DEF PIO
      <3>2. Approves(session[s].entry, p)
        BY <1>3, <2>2, Writer
      <3> QED
        BY <1>1, <3>1, <3>2, OneApproval
    <2>3. CASE p = session[s].object /\ ~SaveCommit(s)
      BY <1>1, <1>3, <2>3, ObjectWritten DEF WritesObject, PIO
    <2> QED
      BY <2>1, <2>2, <2>3
  <1> QED
    BY <1>2, <1>3, ObjectStep

LEMMA DocumentsStep ==
    ASSUME ReviewInv, [Next]_vars
    PROVE  Documents' /\ pio' \in [Objects -> PIO] /\ announced' \subseteq Objects
  <1>1. /\ pio \in [Objects -> PIO] /\ announced \subseteq Objects
        /\ LogGrows /\ ConflictsGrow
    BY LogPersists, ConflictsPersist DEF ReviewInv, Types
  <1>2. ASSUME NEW p \in Objects, pio'[p] = pio[p], p \in announced' => p \in announced
        PROVE  ObjectOf(p)'
    <2>1. ObjectOf(p)
      BY DEF ReviewInv, Documents
    <2>2. Approves(pio[p].entry, p) => Approves(pio[p].entry, p)'
      BY <1>1, <1>2, ApprovalPersists
    <2>3. Queued(p) => Queued(p)'
      BY <1>1, QueuedPersists
    <2> QED
      BY <1>2, <2>1, <2>2, <2>3 DEF ObjectOf
  <1>3. CASE UNCHANGED <<pio, announced>>
    BY <1>1, <1>2, <1>3 DEF Documents
  <1>4. ASSUME NEW u \in Users, NEW o \in Objects, CreateIntelligence(u, o)
        PROVE  Documents' /\ pio' \in [Objects -> PIO] /\ announced' \subseteq Objects
    <2> DEFINE doc == [NoPIO EXCEPT !.state = "candidate", !.author = u]
    <2>1. doc \in PIO /\ doc.entry = 0 /\ doc.state = "candidate" /\ doc.failure = "none"
      BY DEF NoPIO, PIO, States, Failures
    <2>2. pio' = [pio EXCEPT ![o] = doc] /\ announced' = announced /\ pio[o].state = "none"
      BY <1>4 DEF CreateIntelligence
    <2>3. o \notin announced
      <3>1. log \in Seq(Request)
        BY DEF ReviewInv, Types
      <3>2. ~Approves(0, o)
        BY <3>1 DEF Approves
      <3>3. pio[o].entry = 0
        BY <2>2 DEF ReviewInv, Documents, ObjectOf
      <3> QED
        BY <3>2, <3>3 DEF ReviewInv, Documents, ObjectOf
    <2>4. ObjectOf(o)'
      BY <1>1, <2>1, <2>2, <2>3 DEF ObjectOf
    <2> QED
      BY <1>1, <1>2, <2>1, <2>2, <2>4 DEF Documents
  <1>5. ASSUME NEW s \in Sessions, WritesObject(s)
        PROVE  Documents' /\ pio' \in [Objects -> PIO] /\ announced' \subseteq Objects
    <2> DEFINE p == session[s].object
    <2>1. p \in Objects /\ pio[p] \in PIO /\ session[s] \in Session
      BY <1>1, <1>5, Writer
    <2>2. announced' \subseteq announced \cup {p} /\ pio' \in [Objects -> PIO]
      BY <1>5, ObjectWritten DEF WritesObject
    <2>3. \A o \in Objects \ {p} : ObjectOf(o)'
      BY <1>2, <1>5, <2>2, ObjectWritten
    <2>4. ObjectOf(p)
      BY <2>1 DEF ReviewInv, Documents
    <2>5. \A n : Approves(n, p) => n # 0
      <3>1. log \in Seq(Request)
        BY DEF ReviewInv, Types
      <3> QED
        BY <3>1 DEF Approves
    <2>6. ASSUME NEW o \in Objects, o = p PROVE ObjectOf(o)'
      <3>1. \A n : Approves(n, o) => Approves(n, o)'
        BY <1>1, ApprovalPersists
      <3>2. Queued(o) => Queued(o)'
        BY <1>1, QueuedPersists
      <3>3. CASE SaveDecision(s)
        <4>1. /\ pio'[o].entry = pio[o].entry /\ pio'[o].failure = pio[o].failure
              /\ pio'[o].state \in {"rejected", "candidate", "requires_field_verification"}
              /\ announced' = announced
          BY <1>5, <2>1, <2>6, <3>3, ObjectWritten, Writer DEF PIO
        <4> QED
          BY <2>4, <2>6, <3>1, <3>2, <4>1 DEF ObjectOf
      <3>4. CASE SaveFailure(s)
        <4>1. /\ pio'[o].entry = pio[o].entry /\ pio'[o].state = "publication_failed"
              /\ pio'[o].failure = "STALE_EXPECTED_STATE" => session[s].reason # "none"
              /\ announced' = announced
          BY <1>5, <2>1, <2>6, <3>4, ObjectWritten DEF PIO
        <4>2. pio'[o].failure = "STALE_EXPECTED_STATE" => Queued(o)
          BY <1>5, <2>6, <3>4, <4>1, Writer
        <4> QED
          BY <2>4, <2>6, <3>1, <3>2, <4>1, <4>2 DEF ObjectOf
      <3>5. CASE SaveCommit(s)
        <4>1. /\ pio'[o].entry = session[s].entry /\ pio'[o].state = "passport_committed"
              /\ pio'[o].failure = "none"
          BY <1>5, <2>1, <2>6, <3>5, ObjectWritten DEF PIO
        <4>2. Approves(session[s].entry, o)
          BY <1>5, <2>6, <3>5, Writer
        <4>3. Approves(pio[o].entry, o)'
          BY <3>1, <4>1, <4>2
        <4> QED
          BY <4>1, <4>3 DEF ObjectOf
      <3>6. CASE Announce(s)
        <4>1. pio' = pio /\ pio[o].entry # 0
          BY <1>5, <2>6, <3>6, ObjectWritten, Writer
        <4> QED
          BY <2>4, <2>6, <3>1, <3>2, <4>1 DEF ObjectOf
      <3> QED
        BY <1>5, <3>3, <3>4, <3>5, <3>6 DEF WritesObject
    <2> QED
      BY <1>1, <2>1, <2>2, <2>3, <2>6 DEF Documents
  <1> QED
    BY <1>3, <1>4, <1>5, ObjectStep

----------------------------------------------------------------------------
(* Handlers keep what they know, and come to know what a step tells them *)

LEMMA HandlerPersists ==
    ASSUME ReviewInv, [Next]_vars, NEW s \in Sessions, session'[s] = session[s]
    PROVE  HandlerOf(s)'
  <1>1. HandlerOf(s) /\ session[s] \in Session
    BY HandlerTypes DEF ReviewInv, Handlers
  <1>2. LogGrows /\ ConflictsGrow
    BY LogPersists, ConflictsPersist
  <1>3. session[s].conflict # 0 => /\ session[s].conflict \in DOMAIN conflict'
                                   /\ conflict'[session[s].conflict].attempt
                                        = conflict[session[s].conflict].attempt
    BY <1>1, <1>2 DEF HandlerOf, ConflictsGrow
  <1> SUFFICES ASSUME session[s].pc # "idle"
               PROVE  HandlerOf(s)'
    BY <1>3 DEF HandlerOf
  <1>4. RequestOf(session[s])'
    BY <1>1, <1>3 DEF HandlerOf, RequestOf
  <1>5. StepOf(session[s])'
    BY <1>1 DEF HandlerOf, StepOf
  <1>6. KnownOf(session[s])'
    <2>1. session[s].pc = "save" => Approves(session[s].entry, session[s].object)'
      BY <1>1, <1>2, ApprovalPersists DEF HandlerOf, KnownOf
    <2>2. session[s].pc = "announce" => pio'[session[s].object].entry # 0
      <3>1. session[s].pc = "announce" => session[s].object \in Objects
        BY <1>1 DEF HandlerOf, StepOf
      <3> QED
        BY <1>1, <3>1, ReferencesKept DEF HandlerOf, KnownOf
    <2>3. session[s].pc = "rebased" => Replaces(session[s].entry, session[s].conflict)'
      BY <1>1, <1>2, <1>3, ReplacementPersists DEF HandlerOf, StepOf, KnownOf
    <2>4. session[s].pc = "failed" /\ session[s].reason # "none" => Queued(session[s].object)'
      BY <1>1, <1>2, QueuedPersists DEF HandlerOf, KnownOf
    <2> QED
      BY <2>1, <2>2, <2>3, <2>4 DEF KnownOf
  <1> QED
    BY <1>1, <1>3, <1>4, <1>5, <1>6 DEF HandlerOf

\* An entry written under a handler's request is what the handler takes it for.
LEMMA EntryIsOurs ==
    ASSUME ReviewInv, NEW s \in Sessions, session[s].pc \in {"check", "commit"},
           NEW q \in Request, q.key = Asked(s).key, Fingerprint(q) = Fingerprint(Asked(s))
    PROVE  IF session[s].conflict = 0
           THEN q.key = session[s].object /\ q.source = session[s].object /\ q.rebaseOf = 0
           ELSE /\ session[s].conflict \in DOMAIN conflict
                /\ q.rebaseOf = session[s].conflict
                /\ q.key # conflict[session[s].conflict].attempt.key
  <1>1. session[s].request # NoRequest /\ Asked(s) \in Request /\ HandlerOf(s)
    BY HandlerAsks DEF ReviewInv, Handlers
  <1>2. q.source = Asked(s).source /\ q.rebaseOf = Asked(s).rebaseOf
    BY DEF Fingerprint
  <1> QED
    BY <1>1, <1>2 DEF HandlerOf, RequestOf, Asked

\* A refusal is in the queue when an active conflict has its fingerprint.
LEMMA RefusalQueued ==
    ASSUME ReviewInv, NEW s \in Sessions, session[s].pc \in {"conflict", "insert"},
           session[s].conflict = 0, ActiveFor(Refused(s)) # {}
    PROVE  Queued(session[s].object)
  <1>1. session[s].pc # "idle" /\ session[s].request # NoRequest /\ Asked(s) \in Request
    BY HandlerAsks
  <1>2. /\ Asked(s).key = session[s].object /\ Asked(s).source = session[s].object
        /\ Asked(s).content # 0
    BY <1>1 DEF ReviewInv, Handlers, HandlerOf, RequestOf, Asked
  <1>3. PICK c \in DOMAIN conflict : ConflictPrint(conflict[c].attempt) = ConflictPrint(Refused(s))
    BY DEF ActiveFor
  <1>4. conflict[c].attempt.source = Asked(s).source
        /\ conflict[c].attempt.print = Fingerprint(Asked(s))
    BY <1>3 DEF ConflictPrint, Refused, Attempt
  <1>5. PICK q \in Request : /\ conflict[c].attempt.print = Fingerprint(q)
                             /\ conflict[c].attempt.source = q.source
                             /\ conflict[c].attempt.key = q.key
                             /\ q.content # 0 => q.key = q.source
    BY DEF ReviewInv, Attempts, AttemptOf
  <1>6. q.content = Asked(s).content
    BY <1>4, <1>5 DEF Fingerprint
  <1> QED
    BY <1>2, <1>4, <1>5, <1>6 DEF Queued

LEMMA HandlerProceeds ==
    ASSUME ReviewInv, [Next]_vars, NEW s \in Sessions, Proceed(s)
    PROVE  HandlerOf(s)'
  <1> SUFFICES ASSUME NEW h, h = session[s] PROVE HandlerOf(s)'
    OBVIOUS
  <1>1. /\ h \in Session /\ h.pc # "idle" /\ session \in [Sessions -> Session]
        /\ h.conflict = 0 => h.object \in Objects
        /\ h.conflict # 0 => h.conflict \in DOMAIN conflict
        /\ RequestOf(h) /\ StepOf(h) /\ KnownOf(h)
    BY HandlerTypes, HandlerMoves DEF ReviewInv, Types, Handlers, HandlerOf
  <1>2. LogGrows /\ ConflictsGrow
    BY LogPersists, ConflictsPersist
  <1>3. h.conflict # 0 => /\ h.conflict \in DOMAIN conflict'
                          /\ conflict'[h.conflict].attempt = conflict[h.conflict].attempt
    BY <1>1, <1>2 DEF ConflictsGrow
  \* The new state of the handler, and what remains to be shown of it.
  <1>4. ASSUME NEW r, Becomes(s, r),
               r.object = h.object, r.conflict = h.conflict, r.request = h.request,
               StepOf(r),
               r.pc = "save" => Approves(r.entry, r.object)',
               r.pc = "announce" => pio'[r.object].entry # 0,
               r.pc = "rebased" => Replaces(r.entry, r.conflict)',
               r.pc = "failed" /\ r.reason # "none" => Queued(r.object)'
        PROVE  HandlerOf(s)'
    <2>1. session'[s] = r
      BY <1>1, <1>4 DEF Becomes
    <2>2. RequestOf(session[s])'
      BY <1>1, <1>3, <1>4, <2>1 DEF RequestOf
    <2>3. StepOf(session[s])'
      BY <1>4, <2>1 DEF StepOf
    <2>4. KnownOf(session[s])'
      BY <1>4, <2>1 DEF KnownOf, Approves, Replaces, Queued
    <2> QED
      BY <1>1, <1>3, <1>4, <2>1, <2>2, <2>3, <2>4 DEF HandlerOf
  <1>5. CASE Becomes(s, IdleSession)
    BY <1>1, <1>5 DEF Becomes, HandlerOf, IdleSession
  <1>6. CASE /\ h.pc = "head"
             /\ Becomes(s, [h EXCEPT !.pc = "check", !.request = Approval(s)])
    <2> DEFINE r == [h EXCEPT !.pc = "check", !.request = Approval(s)]
    <2>1. h.conflict = 0 /\ h.object \in Objects /\ h.attempt # 0 /\ h.reason = "none"
          /\ h.user \in Users
      BY <1>1, <1>6 DEF StepOf
    <2>2. /\ Approval(s).key = h.object /\ Approval(s).source = h.object
          /\ Approval(s).content = h.attempt /\ Approval(s).rebaseOf = 0
      BY DEF Approval
    <2>3. Approval(s) \in Request
      <3>1. h.attempt \in 0 .. MaxReviews /\ Len(log) \in Nat
        BY <1>1 DEF Session, ReviewInv, Types
      <3> QED
        BY <2>1, <3>1 DEF Approval, Request, Keys
    <2>4. Approval(s) # NoRequest
      BY <2>3, ReviewAssumption
    <2>5. /\ r.pc = "check" /\ r.request = Approval(s) /\ r.conflict = 0
          /\ r.object = h.object /\ r.reason = "none"
      BY <1>1, <2>1 DEF Session
    <2> HIDE DEF r
    <2>6. session'[s] = r
      BY <1>1, <1>6 DEF Becomes, r
    <2> QED
      BY <2>1, <2>2, <2>4, <2>5, <2>6 DEF HandlerOf, RequestOf, StepOf, KnownOf
  <1>7. CASE /\ h.pc = "check"
             /\ Becomes(s, [h EXCEPT !.pc = "commit", !.seen = Len(log)])
    <2> DEFINE r == [h EXCEPT !.pc = "commit", !.seen = Len(log)]
    <2>1. /\ r.pc = "commit" /\ r.reason = h.reason /\ r.object = h.object
          /\ r.conflict = h.conflict /\ r.request = h.request
      BY <1>1 DEF Session
    <2>2. h.request # NoRequest /\ h.reason = "none"
      BY <1>1, <1>7 DEF StepOf
    <2>3. StepOf(r)
      BY <2>1, <2>2 DEF StepOf
    <2> HIDE DEF r
    <2>4. Becomes(s, r)
      BY <1>7 DEF r
    <2> QED
      BY <1>4, <2>1, <2>3, <2>4
  <1>8. ASSUME NEW n \in Nat, NEW r, r = [h EXCEPT !.entry = n, !.pc = Answered(s)],
               h.pc \in {"check", "commit"}, Becomes(s, r),
               h.conflict = 0 => Approves(n, h.object)',
               h.conflict # 0 => Replaces(n, h.conflict)'
        PROVE  HandlerOf(s)'
    <2>1. /\ r.pc = IF h.conflict # 0 THEN "rebased" ELSE "save"
          /\ r.entry = n /\ r.object = h.object
          /\ r.conflict = h.conflict /\ r.request = h.request
      BY <1>1, <1>8 DEF Session, Answered
    <2>2. h.request # NoRequest
      BY <1>1, <1>8 DEF StepOf
    <2>3. StepOf(r)
      BY <2>1, <2>2 DEF StepOf
    <2>4. r.pc = "save" => Approves(r.entry, r.object)'
      BY <1>8, <2>1
    <2>5. r.pc = "rebased" => Replaces(r.entry, r.conflict)'
      BY <1>8, <2>1
    <2>6. r.pc # "announce" /\ r.pc # "failed"
      BY <2>1
    <2> QED
      BY <1>4, <1>8, <2>1, <2>3, <2>4, <2>5, <2>6
  <1>9. CASE /\ h.pc = "check" /\ AlreadyCommitted(Asked(s))
             /\ Becomes(s, [h EXCEPT !.entry = row[Asked(s).key].entry, !.pc = Answered(s)])
    <2>0. PICK n : n = row[Asked(s).key].entry
      OBVIOUS
    <2>1. Asked(s).key \in Keys
      BY <1>9, HandlerAsks
    <2>2. /\ n \in DOMAIN log /\ log[n].key = Asked(s).key
          /\ Fingerprint(log[n]) = Fingerprint(Asked(s))
      BY <1>9, <2>0, <2>1 DEF AlreadyCommitted, ReviewInv, Rows, RowOf
    <2>3. n \in Nat /\ log[n] \in Request
      BY <2>2 DEF ReviewInv, Types
    <2>4. /\ h.conflict = 0 => Approves(n, h.object)
          /\ h.conflict # 0 => Replaces(n, h.conflict)
      BY <1>9, <2>2, <2>3, EntryIsOurs DEF Approves, Replaces
    <2>5. /\ h.conflict = 0 => Approves(n, h.object)'
          /\ h.conflict # 0 => Replaces(n, h.conflict)'
      BY <1>1, <1>2, <2>4, ApprovalPersists, ReplacementPersists
    <2> QED
      BY <1>8, <1>9, <2>0, <2>3, <2>5
  <1>10. CASE /\ h.pc = "commit" /\ Extends(Asked(s))
              /\ Becomes(s, [h EXCEPT !.entry = Len(log) + 1, !.pc = Answered(s)])
    <2>0. PICK n : n = Len(log) + 1
      OBVIOUS
    <2>1. n \in DOMAIN log' /\ log'[n] = Asked(s)
      BY <1>10, <2>0, Appended
    <2>2. n \in Nat /\ Asked(s) \in Request
      BY <1>10, <2>0, HandlerAsks DEF ReviewInv, Types
    <2>3. IF h.conflict = 0
          THEN Asked(s).key = h.object /\ Asked(s).source = h.object /\ Asked(s).rebaseOf = 0
          ELSE /\ Asked(s).rebaseOf = h.conflict
               /\ Asked(s).key # conflict[h.conflict].attempt.key
      BY <1>10, <2>2, EntryIsOurs
    <2>4. h.conflict = 0 => Approves(n, h.object)'
      BY <2>1, <2>3 DEF Approves
    <2>5. h.conflict # 0 => Replaces(n, h.conflict)'
      BY <1>3, <2>1, <2>3 DEF Replaces
    <2> QED
      BY <1>8, <1>10, <2>0, <2>2, <2>4, <2>5
  <1>11. ASSUME NEW seen \in Nat, NEW reason \in Reasons, h.pc \in {"check", "commit"},
                Becomes(s, [h EXCEPT !.pc = "conflict", !.seen = seen, !.reason = reason])
         PROVE  HandlerOf(s)'
    <2> DEFINE r == [h EXCEPT !.pc = "conflict", !.seen = seen, !.reason = reason]
    <2>1. /\ r.pc = "conflict" /\ r.reason = reason /\ r.object = h.object
          /\ r.conflict = h.conflict /\ r.request = h.request
      BY <1>1 DEF Session
    <2>2. h.request # NoRequest
      BY <1>1, <1>11 DEF StepOf
    <2>3. StepOf(r)
      BY <2>1, <2>2 DEF StepOf
    <2> HIDE DEF r
    <2>4. Becomes(s, r)
      BY <1>11 DEF r
    <2> QED
      BY <1>4, <2>1, <2>3, <2>4
  <1>12. CASE /\ h.pc = "commit"
              /\ Becomes(s, [h EXCEPT !.pc = "conflict", !.reason = "CAS_RACE_STALE"])
    <2>1. h.seen \in Nat
          /\ [h EXCEPT !.pc = "conflict", !.reason = "CAS_RACE_STALE"]
               = [h EXCEPT !.pc = "conflict", !.seen = h.seen, !.reason = "CAS_RACE_STALE"]
      BY <1>1 DEF Session
    <2> QED
      BY <1>11, <1>12, <2>1 DEF Reasons
  <1>13. CASE /\ h.pc = "check"
              /\ Becomes(s, [h EXCEPT !.pc = "conflict", !.seen = Len(log),
                                      !.reason = "STALE_EXPECTED_STATE"])
    <2>1. Len(log) \in Nat
      BY DEF ReviewInv, Types
    <2> QED
      BY <1>11, <1>13, <2>1 DEF Reasons
  <1>14. ASSUME NEW step \in {"insert", "failed", "announce", "check"},
                NEW r, r = [h EXCEPT !.pc = step], Becomes(s, r),
                h.request # NoRequest,
                step = "insert" => h.reason \in Reasons,
                step \in {"failed", "announce"} => h.conflict = 0,
                step = "check" => h.reason = "none",
                step = "announce" => pio'[h.object].entry # 0,
                step = "failed" /\ h.reason # "none" => Queued(h.object)'
         PROVE  HandlerOf(s)'
    <2>1. /\ r.pc = step /\ r.reason = h.reason /\ r.object = h.object
          /\ r.conflict = h.conflict /\ r.request = h.request
      BY <1>1, <1>14 DEF Session
    <2>2. StepOf(r)
      BY <1>14, <2>1 DEF StepOf
    <2> QED
      BY <1>4, <1>14, <2>1, <2>2
  <1>15. CASE h.pc = "conflict" /\ Becomes(s, [h EXCEPT !.pc = "insert"])
    BY <1>1, <1>14, <1>15 DEF StepOf
  <1>16. CASE /\ h.pc \in {"check", "commit", "conflict", "insert"} /\ h.conflict = 0
              /\ h.pc = "conflict" => ActiveFor(Refused(s)) # {}
              /\ h.pc = "insert" => Opens(s) \/ ActiveFor(Refused(s)) # {}
              /\ Becomes(s, [h EXCEPT !.pc = "failed"])
    <2>1. h.request # NoRequest /\ (h.pc \in {"check", "commit"} => h.reason = "none")
      BY <1>1, <1>16 DEF StepOf
    <2>2. ASSUME h.pc \in {"conflict", "insert"} PROVE Queued(h.object)'
      <3>1. CASE ActiveFor(Refused(s)) # {}
        BY <1>2, <1>16, <2>2, <3>1, RefusalQueued, QueuedPersists
      <3>2. CASE Opens(s)
        <4>1. Asked(s).key = h.object /\ Asked(s).source = h.object
          BY <1>1, <1>16, <2>1 DEF RequestOf, Asked
        <4>2. \E c \in DOMAIN conflict' : /\ conflict'[c].attempt.key = Asked(s).key
                                          /\ conflict'[c].attempt.source = Asked(s).source
          BY <3>2, Opening
        <4> QED
          BY <4>1, <4>2 DEF Queued
      <3> QED
        BY <1>16, <2>2, <3>1, <3>2
    <2> QED
      BY <1>14, <1>16, <2>1, <2>2
  <1>17. CASE /\ h.pc = "save" /\ SaveCommit(s) /\ Becomes(s, [h EXCEPT !.pc = "announce"])
    <2>1. h.request # NoRequest /\ h.conflict = 0 /\ Approves(h.entry, h.object)
      BY <1>1, <1>17 DEF StepOf, KnownOf
    <2>2. h.entry # 0
      <3>1. log \in Seq(Request)
        BY DEF ReviewInv, Types
      <3> QED
        BY <2>1, <3>1 DEF Approves
    <2>3. pio'[h.object] = [pio[h.object] EXCEPT !.state = "passport_committed",
                               !.entry = h.entry, !.failure = "none"]
      BY <1>17, ObjectWritten DEF WritesObject
    <2>4. pio[h.object] \in PIO
      BY <1>1, <2>1 DEF ReviewInv, Types
    <2>5. pio'[h.object].entry # 0
      BY <2>2, <2>3, <2>4 DEF PIO
    <2> QED
      BY <1>14, <1>17, <2>1, <2>5
  <1>18. CASE h.pc = "mark" /\ h.request # NoRequest /\ Becomes(s, [h EXCEPT !.pc = "check"])
    BY <1>1, <1>14, <1>18 DEF StepOf
  <1>19. Moves(s, h)
    BY HandlerMoves
  <1> QED
    BY <1>5, <1>6, <1>7, <1>9, <1>10, <1>12, <1>13, <1>15, <1>16, <1>17, <1>18, <1>19 DEF Moves

LEMMA HandlersStep ==
    ASSUME ReviewInv, [Next]_vars
    PROVE  Handlers'
  <1>1. session \in [Sessions -> Session]
    BY DEF ReviewInv, Types
  <1>2. ASSUME NEW s \in Sessions, HandlerStep(s), ~Proceed(s) PROVE HandlerOf(s)'
    <2>1. PICK r \in Session : /\ Becomes(s, r) /\ r.pc \in {"head", "decide", "mark"}
                               /\ r.conflict = 0 => r.object \in Objects
                               /\ r.conflict # 0 => r.conflict \in DOMAIN conflict
                               /\ RequestOf(r) /\ StepOf(r)
      BY <1>2, HandlerBegins DEF HandlerStep
    <2>2. session'[s] = r
      BY <1>1, <2>1 DEF Becomes
    <2>3. conflict' = conflict
      BY <1>2, BeginsOnly DEF HandlerStep
    <2> QED
      BY <2>1, <2>2, <2>3 DEF HandlerOf, RequestOf, StepOf, KnownOf
  <1>3. ASSUME NEW s \in Sessions, NEW r \in Session, HandlerStep(s), Becomes(s, r),
               NEW t \in Sessions
        PROVE  HandlerOf(t)'
    <2>1. CASE t # s
      <3>1. session'[t] = session[t]
        BY <1>1, <1>3, <2>1 DEF Becomes
      <3> QED
        BY <3>1, HandlerPersists
    <2>2. CASE t = s
      BY <1>2, <1>3, <2>2, HandlerProceeds
    <2> QED
      BY <2>1, <2>2
  <1>4. ASSUME session' = session, NEW t \in Sessions PROVE HandlerOf(t)'
    BY <1>4, HandlerPersists
  <1> QED
    BY <1>3, <1>4, SessionTypes DEF Handlers

LEMMA ReviewStep == ReviewInv /\ [Next]_vars => ReviewInv'
  <1> SUFFICES ASSUME ReviewInv, [Next]_vars PROVE ReviewInv'
    OBVIOUS
  <1>1. Types'
    BY LogPersists, RowsStep, ConflictsPersist, DocumentsStep, SessionTypes, BudgetTypes DEF Types
  <1> QED
    BY <1>1, LogPersists, RowsStep, AttemptsStep, ReplacementStep, DocumentsStep, HandlersStep
       DEF ReviewInv

LEMMA ReviewInvariant == Spec => []ReviewInv
  BY InitReview, ReviewStep, PTL DEF Spec

----------------------------------------------------------------------------
\* Every variable of the review of intelligence keeps its type: conflicts are of objects.
THEOREM TypeCorrect == Spec => []TypeOK
  <1>1. ReviewInv => TypeOK
    <2> SUFFICES ASSUME ReviewInv PROVE TypeOK
      OBVIOUS
    <2>1. Types
      BY DEF ReviewInv
    <2>2. PublicationTypeOK
      <3>1. \A k \in Keys : row[k] \in RowDoc
        BY <2>1 DEF Types
      <3>2. \A c \in DOMAIN conflict : conflict[c] \in ConflictDoc
        BY <2>1 DEF Types
      <3> QED
        BY <2>1, <3>1, <3>2 DEF PublicationTypeOK, Types, RowDoc, ConflictDoc, AttemptDoc
    <2>3. budget \in [reviews : Nat, marks : Nat, rebases : Nat, crashes : Nat]
      BY <2>1, PublicationAssumption DEF Types, Budget
    <2>4. ASSUME NEW s \in Sessions PROVE session[s].conflict \in 0 .. Len(conflict)
      <3>1. session[s].conflict = 0 \/ session[s].conflict \in DOMAIN conflict
        BY DEF ReviewInv, Handlers, HandlerOf
      <3> QED
        BY <2>1, <3>1 DEF Types
    <2>5. \A s \in Sessions : session[s] \in Session
      BY <2>1 DEF Types
    <2> QED
      BY <2>1, <2>2, <2>3, <2>4, <2>5 DEF TypeOK, Types, Session
  <1> QED
    BY <1>1, ReviewInvariant, PTL

\* No failed attempt, late decision or rebase makes an object be shown as committed, or
\* announced, without its approval on the ledger at the place it records.
THEOREM CommittedAlwaysOnLedger == Spec => []CommittedOnLedger
  <1>1. ReviewInv => CommittedOnLedger
    BY DEF ReviewInv, Documents, ObjectOf, CommittedOnLedger
  <1> QED
    BY <1>1, ReviewInvariant, PTL

\* An approval refused on a stale head has its conflict, though another refusal may have
\* opened it and its handler may die before it says so.
THEOREM RefusalsAlwaysQueued == Spec => []RefusalsAreQueued
  <1>1. ReviewInv => RefusalsAreQueued
    BY DEF ReviewInv, Documents, ObjectOf, RefusalsAreQueued, Queued
  <1> QED
    BY <1>1, ReviewInvariant, PTL

\* However operators overlap, a replacement is the entry of a rebase of its conflict.
THEOREM ReplacementsAlwaysOnLedger == Spec => []ReplacementOnLedger
  <1>1. ReviewInv => ReplacementOnLedger
    BY DEF ReviewInv
  <1> QED
    BY <1>1, ReviewInvariant, PTL

\* An object keeps the place of its entry, because its key lets it have one approval only.
THEOREM ReferenceAlwaysFinal == Spec => ReferenceIsFinal
  <1>1. ReviewInv /\ [Next]_vars
          => [\A p \in Objects : pio[p].entry # 0 => pio'[p].entry = pio[p].entry]_vars
    BY ReferencesKept
  <1> QED
    BY <1>1, ReviewInvariant, PTL DEF Spec, ReferenceIsFinal
=============================================================================
