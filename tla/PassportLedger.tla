--------------------------- MODULE PassportLedger ---------------------------
(***************************************************************************)
(* The hash-chained Property Passport ledger of one property, as written   *)
(* by concurrent invocations of append_entry (nextgen/passport_service.py).*)
(*                                                                         *)
(* An invocation is a process: each of its awaits on a collection is a     *)
(* step of its own, except inside session.start_transaction(), where the   *)
(* whole of _commit_body is one step.  Invocations may crash anywhere, and *)
(* a database call may raise.                                              *)
(*                                                                         *)
(* Hashes: the hashed body of an entry holds its seq, and no two entries   *)
(* of a passport share one, so the content hash of an entry is represented *)
(* by its seq; 0 is the absent hash (None).  A request fingerprint is the  *)
(* request without its idempotency key.                                    *)
(***************************************************************************)
EXTENDS Integers, FiniteSets

CONSTANTS
    Calls,          \* the invocations of append_entry that may overlap
    Keys,           \* idempotency keys
    Contents,       \* payloads together with their publication context
    Requests,       \* the requests callers make
    NoToken,        \* an expected-state token that was not supplied
    Strict,         \* production: transactions and ready indexes are required
    TxnAvailable,   \* PASSPORT_TRANSACTIONS_AVAILABLE
    IndexesReady,   \* the critical unique indexes are READY
    Starts,         \* the status the passport document may start with
    MaxCalls,       \* bound on the invocations made
    MaxCrashes,     \* bound on the invocations that die
    MaxAborts       \* bound on the database calls that raise

Token == Nat \cup {NoToken}

ASSUME ModeAssumption ==
    /\ {Strict, TxnAvailable, IndexesReady} \subseteq BOOLEAN
    /\ Starts \subseteq {"absent", "legacy"}
    /\ Strict \/ IndexesReady   \* a local host without indexes is not modelled

ASSUME RequestAssumption ==
    /\ NoToken \notin Nat
    /\ Requests # {}
    /\ Requests \subseteq
         [key : Keys, content : Contents, expRev : Token, expHead : Token]

ASSUME BoundAssumption == {MaxCalls, MaxCrashes, MaxAborts} \subseteq Nat

VARIABLES
    passport,   \* the active passport document
    nextSeq,    \* passport_sequences.next_seq, 0 while that document is missing
    entries,    \* passport_entries
    receipts,   \* passport_receipts, each named by the entry it is for
    idem,       \* passport_idempotency, one row per key
    conflicts,  \* conflict records opened for refused attempts
    pc,         \* where each invocation is
    req,        \* the request it serves
    rev,        \* actual_revision: the revision it read
    head,       \* actual_head: the head hash it read
    seq,        \* the sequence number it was allocated, 0 if none
    acked,      \* history: the (request, entry) pairs reported to callers as committed
    budget      \* what is left of the bounds

store == <<passport, nextSeq, entries, receipts, idem, conflicts>>
local == <<req, rev, head, seq>>
vars  == <<store, pc, local, acked, budget>>

----------------------------------------------------------------------------
(* Documents *)

NoHash == 0

Phases == {"idle", "load", "upgrade", "provision", "seqdoc", "check", "txn",
           "claim", "alloc", "insert", "advance", "receipt", "record", "reread",
           "race", "racemark", "rollback", "failmark"}

\* The awaits of _commit_body, any of which may raise.
Committing == {"txn", "claim", "alloc", "insert", "advance", "receipt", "record", "reread"}

Entry == [seq : Nat \ {0}, prior : Nat, revision : Nat, req : Requests]

PassportDoc == [status : {"absent", "legacy", "active"},
                revision : Nat, head : Nat, pending : BOOLEAN]

Conflict == [req : Requests, rev : Token, head : Token,
             reason : {"STALE_EXPECTED_STATE", "CAS_RACE_STALE"}]

Fingerprint(q) == [content |-> q.content, expRev |-> q.expRev, expHead |-> q.expHead]

NoRow == [status |-> "NONE"]
CommittedRow(q, n) == [status |-> "COMMITTED", fp |-> Fingerprint(q), seq |-> n]

\* The FAILED upsert names neither the entry nor the status it overwrites.
FailedRow(row, q) ==
    [status |-> "FAILED", fp |-> Fingerprint(q),
     seq |-> IF row.status = "NONE" THEN 0 ELSE row.seq]

Row == {NoRow} \cup
       [status : {"COMMITTED", "FAILED"}, fp : {Fingerprint(q) : q \in Requests}, seq : Nat]

HasToken(q) == q.expRev # NoToken \/ q.expHead \notin {NoToken, NoHash}

\* Mutant of Stale: only the revision is compared.
StaleByRevision(q, r, h) == q.expRev # NoToken /\ q.expRev # r

\* The check made before a sequence is allocated, against the state that was read.
Stale(q, r, h) ==
    \/ q.expRev # NoToken /\ q.expRev # r
    \/ q.expHead # NoToken /\ q.expHead # h

\* Mutant of CasMatches: the filter does not name the revision.
CasOnDocumentOnly(c) ==
    /\ passport.status = "active"
    /\ req[c].expHead # NoToken => passport.head = head[c]

\* The filter of the compare-and-swap on the passport document.
CasMatches(c) ==
    /\ passport.status = "active"
    /\ passport.revision = rev[c]
    /\ req[c].expHead # NoToken => passport.head = head[c]

IdleRequest == CHOOSE q \in Requests : TRUE

----------------------------------------------------------------------------
TypeOK ==
    /\ passport \in PassportDoc
    /\ nextSeq \in Nat
    /\ entries \subseteq Entry
    /\ receipts \subseteq Nat
    /\ idem \in [Keys -> Row]
    /\ conflicts \subseteq Conflict
    /\ pc \in [Calls -> Phases]
    /\ req \in [Calls -> Requests]
    /\ rev \in [Calls -> Nat]
    /\ head \in [Calls -> Nat]
    /\ seq \in [Calls -> Nat]
    /\ acked \subseteq [req : Requests, seq : Nat]
    /\ budget \in [calls : Nat, crashes : Nat, aborts : Nat]

\* A legacy passport, written before the revision field, has its sequence
\* document and, here, no entry yet.
Init ==
    /\ \E s \in Starts :
          /\ passport = [status |-> s, revision |-> 0, head |-> NoHash, pending |-> FALSE]
          /\ nextSeq = IF s = "legacy" THEN 1 ELSE 0
    /\ entries = {}
    /\ receipts = {}
    /\ idem = [k \in Keys |-> NoRow]
    /\ conflicts = {}
    /\ pc = [c \in Calls |-> "idle"]
    /\ req = [c \in Calls |-> IdleRequest]
    /\ rev = [c \in Calls |-> 0]
    /\ head = [c \in Calls |-> NoHash]
    /\ seq = [c \in Calls |-> 0]
    /\ acked = {}
    /\ budget = [calls |-> MaxCalls, crashes |-> MaxCrashes, aborts |-> MaxAborts]

----------------------------------------------------------------------------
(* Control of an invocation *)

Goto(c, from, to) == pc[c] = from /\ pc' = [pc EXCEPT ![c] = to]

\* The invocation is over and its locals with it.
Leave(c) ==
    /\ pc' = [pc EXCEPT ![c] = "idle"]
    /\ req' = [req EXCEPT ![c] = IdleRequest]
    /\ rev' = [rev EXCEPT ![c] = 0]
    /\ head' = [head EXCEPT ![c] = NoHash]
    /\ seq' = [seq EXCEPT ![c] = 0]

Acknowledge(c, n) == acked' = acked \cup {[req |-> req[c], seq |-> n]}

Submit(c, q) ==
    /\ Goto(c, "idle", "load")
    /\ budget.calls > 0
    /\ budget' = [budget EXCEPT !.calls = @ - 1]
    /\ req' = [req EXCEPT ![c] = q]
    /\ UNCHANGED <<store, rev, head, seq, acked>>

----------------------------------------------------------------------------
(* _ensure_passport *)

Snapshot(c, r, h) == rev' = [rev EXCEPT ![c] = r] /\ head' = [head EXCEPT ![c] = h]

LoadActive(c) ==
    /\ passport.status = "active"
    /\ Goto(c, "load", "check")
    /\ Snapshot(c, passport.revision, passport.head)
    /\ UNCHANGED <<store, req, seq, acked, budget>>

FindNoRevision(c) ==
    /\ passport.status = "legacy"
    /\ Goto(c, "load", "upgrade")
    /\ UNCHANGED <<store, local, acked, budget>>

\* The rewrite is by id alone, whatever the document has become since.
UpgradeLegacy(c) ==
    /\ Goto(c, "upgrade", "load")
    /\ passport' = [passport EXCEPT !.status = "active", !.revision = 0, !.head = NoHash]
    /\ UNCHANGED <<nextSeq, entries, receipts, idem, conflicts, local, acked, budget>>

FindNone(c) ==
    /\ passport.status = "absent"
    /\ Goto(c, "load", "provision")
    /\ UNCHANGED <<store, local, acked, budget>>

ProvisionPassport(c) ==
    /\ passport.status = "absent"
    /\ Goto(c, "provision", "seqdoc")
    /\ passport' = [passport EXCEPT !.status = "active"]
    /\ Snapshot(c, 0, NoHash)
    /\ UNCHANGED <<nextSeq, entries, receipts, idem, conflicts, req, seq, acked, budget>>

\* Another invocation of this process held the provisioning lock.
ReloadUnderLock(c) ==
    /\ passport.status # "absent"
    /\ Goto(c, "provision", "load")
    /\ UNCHANGED <<store, local, acked, budget>>

\* Another process got there first: the unique index refuses the document.
ProvisionDuplicate(c) ==
    /\ passport.status # "absent"
    /\ pc[c] = "provision"
    /\ Leave(c)
    /\ UNCHANGED <<store, acked, budget>>

InsertSequenceDoc(c) ==
    /\ Goto(c, "seqdoc", "check")
    /\ nextSeq' = 1
    /\ UNCHANGED <<passport, entries, receipts, idem, conflicts, local, acked, budget>>

----------------------------------------------------------------------------
(* The checks before the commit *)

KeyReused(c) ==
    LET row == idem[req[c].key]
    IN  row.status # "NONE" /\ row.fp # Fingerprint(req[c])

\* Mutant of AlreadyCommitted: a FAILED row answers for its entry too.
AlreadyAttempted(c) ==
    LET row == idem[req[c].key]
    IN  row.status # "NONE" /\ row.fp = Fingerprint(req[c])

AlreadyCommitted(c) ==
    LET row == idem[req[c].key]
    IN  row.status = "COMMITTED" /\ row.fp = Fingerprint(req[c])

Accepted(c) ==
    /\ Strict => IndexesReady
    /\ HasToken(req[c])
    /\ ~KeyReused(c)

\* INDEX_NOT_READY, MISSING_EXPECTED_STATE, IDEMPOTENCY_CONFLICT
Refuse(c) ==
    /\ pc[c] = "check"
    /\ ~Accepted(c)
    /\ Leave(c)
    /\ UNCHANGED <<store, acked, budget>>

\* DUPLICATE_SAME_REQUEST
ReturnOriginal(c) ==
    /\ pc[c] = "check"
    /\ Accepted(c)
    /\ AlreadyCommitted(c)
    /\ Acknowledge(c, idem[req[c].key].seq)
    /\ Leave(c)
    /\ UNCHANGED <<store, budget>>

RefuseStale(c) ==
    /\ pc[c] = "check"
    /\ Accepted(c)
    /\ ~AlreadyCommitted(c)
    /\ Stale(req[c], rev[c], head[c])
    /\ conflicts' = conflicts \cup
         {[req |-> req[c], rev |-> rev[c], head |-> head[c],
           reason |-> "STALE_EXPECTED_STATE"]}
    /\ Leave(c)
    /\ UNCHANGED <<passport, nextSeq, entries, receipts, idem, acked, budget>>

Current(c) ==
    /\ pc[c] = "check"
    /\ Accepted(c)
    /\ ~AlreadyCommitted(c)
    /\ ~Stale(req[c], rev[c], head[c])

BeginTransaction(c) ==
    /\ Current(c)
    /\ TxnAvailable
    /\ Goto(c, "check", "txn")
    /\ UNCHANGED <<store, local, acked, budget>>

\* No session could be opened: refused under Strict, steps on their own otherwise.
TransactionUnavailable(c) ==
    /\ Current(c)
    /\ Strict
    /\ Leave(c)
    /\ UNCHANGED <<store, acked, budget>>

BeginPlain(c) ==
    /\ Current(c)
    /\ ~Strict
    /\ Goto(c, "check", "claim")
    /\ UNCHANGED <<store, local, acked, budget>>

----------------------------------------------------------------------------
(* _commit_body in a transaction *)

\* Mutant of NewEntry: the sequence is one behind the allocated one.
EntryOffByOne(c, n) ==
    [seq |-> n - 1, prior |-> head[c], revision |-> rev[c] + 1, req |-> req[c]]

NewEntry(c, n) ==
    [seq |-> n, prior |-> head[c], revision |-> rev[c] + 1, req |-> req[c]]

\* nextSeq exists and the unique index on the key admits a row.
Insertable(c) == nextSeq # 0 /\ idem[req[c].key].status = "NONE"

Commit(c) ==
    /\ pc[c] = "txn"
    /\ CasMatches(c)
    /\ Insertable(c)
    /\ passport' = [passport EXCEPT !.revision = rev[c] + 1, !.head = nextSeq,
                                    !.pending = FALSE]
    /\ nextSeq' = nextSeq + 1
    /\ entries' = entries \cup {NewEntry(c, nextSeq)}
    /\ receipts' = receipts \cup {nextSeq}
    /\ idem' = [idem EXCEPT ![req[c].key] = CommittedRow(req[c], nextSeq)]
    /\ UNCHANGED conflicts

CommitTxn(c) ==
    /\ Commit(c)
    /\ Acknowledge(c, nextSeq)
    /\ Leave(c)
    /\ UNCHANGED budget

\* The transaction commits and the driver raises: the answer is lost.
CommitUnacknowledged(c) ==
    /\ Commit(c)
    /\ budget.aborts > 0
    /\ budget' = [budget EXCEPT !.aborts = @ - 1]
    /\ Goto(c, "txn", "rollback")
    /\ UNCHANGED <<local, acked>>

\* The sequence document is missing or the key already has a row.
RejectTxn(c) ==
    /\ CasMatches(c)
    /\ ~Insertable(c)
    /\ Goto(c, "txn", "rollback")
    /\ UNCHANGED <<store, local, acked, budget>>

LoseTxn(c) ==
    /\ ~CasMatches(c)
    /\ Goto(c, "txn", "race")
    /\ UNCHANGED <<store, local, acked, budget>>

----------------------------------------------------------------------------
(* _commit_body without a transaction *)

ClaimRevision(c) ==
    /\ CasMatches(c)
    /\ Goto(c, "claim", "alloc")
    /\ passport' = [passport EXCEPT !.revision = rev[c] + 1, !.pending = TRUE]
    /\ UNCHANGED <<nextSeq, entries, receipts, idem, conflicts, local, acked, budget>>

LoseClaim(c) ==
    /\ ~CasMatches(c)
    /\ Goto(c, "claim", "race")
    /\ UNCHANGED <<store, local, acked, budget>>

\* Mutant of AllocateSeq: the sequence is taken from the revision, as the claim
\* makes it seem it could be.
AllocateFromRevision(c) ==
    /\ nextSeq # 0
    /\ Goto(c, "alloc", "insert")
    /\ seq' = [seq EXCEPT ![c] = rev[c] + 1]
    /\ nextSeq' = nextSeq + 1
    /\ UNCHANGED <<passport, entries, receipts, idem, conflicts, req, rev, head, acked, budget>>

AllocateSeq(c) ==
    /\ nextSeq # 0
    /\ Goto(c, "alloc", "insert")
    /\ seq' = [seq EXCEPT ![c] = nextSeq]
    /\ nextSeq' = nextSeq + 1
    /\ UNCHANGED <<passport, entries, receipts, idem, conflicts, req, rev, head, acked, budget>>

SequenceMissing(c) ==
    /\ nextSeq = 0
    /\ Goto(c, "alloc", "rollback")
    /\ UNCHANGED <<store, local, acked, budget>>

InsertEntry(c) ==
    /\ Goto(c, "insert", "advance")
    /\ entries' = entries \cup {NewEntry(c, seq[c])}
    /\ UNCHANGED <<passport, nextSeq, receipts, idem, conflicts, local, acked, budget>>

\* The update is filtered on the claimed revision; its result is not looked at.
AdvanceHead(c) ==
    /\ Goto(c, "advance", "receipt")
    /\ passport' = IF passport.revision = rev[c] + 1
                   THEN [passport EXCEPT !.head = seq[c], !.pending = FALSE]
                   ELSE passport
    /\ UNCHANGED <<nextSeq, entries, receipts, idem, conflicts, local, acked, budget>>

InsertReceipt(c) ==
    /\ Goto(c, "receipt", "record")
    /\ receipts' = receipts \cup {seq[c]}
    /\ UNCHANGED <<passport, nextSeq, entries, idem, conflicts, local, acked, budget>>

RecordKey(c) ==
    /\ idem[req[c].key].status = "NONE"
    /\ Goto(c, "record", "reread")
    /\ idem' = [idem EXCEPT ![req[c].key] = CommittedRow(req[c], seq[c])]
    /\ UNCHANGED <<passport, nextSeq, entries, receipts, conflicts, local, acked, budget>>

KeyTaken(c) ==
    /\ idem[req[c].key].status # "NONE"
    /\ Goto(c, "record", "rollback")
    /\ UNCHANGED <<store, local, acked, budget>>

ReturnCommitted(c) ==
    /\ pc[c] = "reread"
    /\ Acknowledge(c, seq[c])
    /\ Leave(c)
    /\ UNCHANGED <<store, budget>>

----------------------------------------------------------------------------
(* Error paths *)

\* A database call of _commit_body raises, or the entry cannot be sealed.
Raise(c) ==
    /\ pc[c] \in Committing
    /\ budget.aborts > 0
    /\ budget' = [budget EXCEPT !.aborts = @ - 1]
    /\ pc' = [pc EXCEPT ![c] = "rollback"]
    /\ UNCHANGED <<store, local, acked>>

\* except StaleExpectedStateError
RecordRace(c) ==
    /\ Goto(c, "race", "racemark")
    /\ conflicts' = conflicts \cup
         {[req |-> req[c], rev |-> NoToken, head |-> NoToken, reason |-> "CAS_RACE_STALE"]}
    /\ UNCHANGED <<passport, nextSeq, entries, receipts, idem, local, acked, budget>>

\* Mutant of UpsertFailed: the handlers delete the row, to make room for a retry.
DeleteRow(c) == idem' = [idem EXCEPT ![req[c].key] = NoRow]

\* Both handlers upsert FAILED by key, whatever status the row has.
UpsertFailed(c) ==
    idem' = [idem EXCEPT ![req[c].key] = FailedRow(@, req[c])]

MarkRaceFailed(c) ==
    /\ pc[c] = "racemark"
    /\ UpsertFailed(c)
    /\ Leave(c)
    /\ UNCHANGED <<passport, nextSeq, entries, receipts, conflicts, acked, budget>>

\* except Exception
RollbackClaim(c) ==
    /\ Goto(c, "rollback", "failmark")
    /\ passport' = IF passport.revision = rev[c] + 1 /\ passport.pending
                   THEN [passport EXCEPT !.revision = rev[c], !.pending = FALSE]
                   ELSE passport
    /\ UNCHANGED <<nextSeq, entries, receipts, idem, conflicts, local, acked, budget>>

\* The rollback is tried once; its own failure is logged and passed over.
RollbackRaises(c) ==
    /\ Goto(c, "rollback", "failmark")
    /\ budget.aborts > 0
    /\ budget' = [budget EXCEPT !.aborts = @ - 1]
    /\ UNCHANGED <<store, local, acked>>

MarkFailed(c) ==
    /\ pc[c] = "failmark"
    /\ UpsertFailed(c)
    /\ Leave(c)
    /\ UNCHANGED <<passport, nextSeq, entries, receipts, conflicts, acked, budget>>

\* The worker process dies, the request is cancelled, or a call outside
\* _commit_body raises.
Crash(c) ==
    /\ pc[c] # "idle"
    /\ budget.crashes > 0
    /\ budget' = [budget EXCEPT !.crashes = @ - 1]
    /\ Leave(c)
    /\ UNCHANGED <<store, acked>>

----------------------------------------------------------------------------
EnsurePassport(c) ==
    \/ LoadActive(c)        \/ FindNoRevision(c)  \/ UpgradeLegacy(c)
    \/ FindNone(c)          \/ ProvisionPassport(c)
    \/ ReloadUnderLock(c)   \/ ProvisionDuplicate(c)
    \/ InsertSequenceDoc(c)

CheckRequest(c) ==
    \/ Refuse(c)            \/ ReturnOriginal(c)  \/ RefuseStale(c)
    \/ BeginTransaction(c)  \/ TransactionUnavailable(c)  \/ BeginPlain(c)

CommitBody(c) ==
    \/ CommitTxn(c)         \/ CommitUnacknowledged(c)
    \/ RejectTxn(c)         \/ LoseTxn(c)
    \/ ClaimRevision(c)     \/ LoseClaim(c)
    \/ AllocateSeq(c)       \/ SequenceMissing(c)
    \/ InsertEntry(c)       \/ AdvanceHead(c)     \/ InsertReceipt(c)
    \/ RecordKey(c)         \/ KeyTaken(c)        \/ ReturnCommitted(c)

HandleError(c) ==
    \/ Raise(c)             \/ RecordRace(c)      \/ MarkRaceFailed(c)
    \/ RollbackClaim(c)     \/ RollbackRaises(c)  \/ MarkFailed(c)
    \/ Crash(c)

Next ==
    \E c \in Calls :
        \/ \E q \in Requests : Submit(c, q)
        \/ EnsurePassport(c)
        \/ CheckRequest(c)
        \/ CommitBody(c)
        \/ HandleError(c)

Spec == Init /\ [][Next]_vars

----------------------------------------------------------------------------
(* verify_passport_chain (nextgen/passport_verify.py), as far as the data   *)
(* above can make it differ: schemas, seals and the inspection limit are    *)
(* left out.                                                                *)

Seqs == {e.seq : e \in entries}

\* The hash the entry before seq n has, in the order the entries are inspected.
HashBefore(n) ==
    IF \E m \in Seqs : m < n
    THEN CHOOSE m \in Seqs : m < n /\ \A k \in Seqs : k < n => k <= m
    ELSE NoHash

IsLast(e) == \A n \in Seqs : n <= e.seq

HeadMismatch(e) ==
    \/ passport.head # NoHash /\ passport.head # e.seq
    \/ passport.revision # e.revision

VerifyResult ==
    IF passport.status = "absent" THEN "UNAVAILABLE"
    ELSE IF \E e, f \in entries : e # f /\ e.seq = f.seq THEN "DUPLICATE_SEQUENCE"
    ELSE IF \E e \in entries : e.seq # HashBefore(e.seq) + 1 THEN "MISSING_ENTRY"
    ELSE IF \E e \in entries : e.prior # HashBefore(e.seq) THEN "INVALID_PREVIOUS_HASH"
    ELSE IF \E e \in entries : IsLast(e) /\ HeadMismatch(e) THEN "HEAD_MISMATCH" ELSE "VALID"

----------------------------------------------------------------------------
(* Properties *)

\* In production mode the ledger verifies at every moment, whatever overlaps,
\* aborts or dies (invariants 2, 4 and 5 of the authority document).
ChainVerifies == VerifyResult \in {"VALID", "UNAVAILABLE"}

\* Repeated delivery of a request cannot put it in the ledger twice: no two
\* entries were written under one idempotency key (invariant 8).
OneEntryPerKey == \A e, f \in entries : e.req.key = f.req.key => e = f

\* A failed append cannot be reported as committed (invariant 9), and a
\* committed entry stays: what a caller was told is in the ledger, under its
\* key, with the content and the tokens it asked for, and with its receipt.
AcknowledgedInLedger ==
    \A a \in acked :
        /\ a.seq \in receipts
        /\ \E e \in entries :
              /\ e.seq = a.seq
              /\ e.req.key = a.req.key
              /\ Fingerprint(e.req) = Fingerprint(a.req)

\* Whoever asks under a key and is answered is given the same entry: retries
\* and duplicates agree (the contract's "return original committed result").
OneResultPerKey == \A a, b \in acked : a.req.key = b.req.key => a.seq = b.seq

\* A sequence occurs once per passport (invariant 2), also between calls that
\* allocate it and insert their entry in separate steps.
SequenceUsedOnce ==
    /\ \A e, f \in entries : e.seq = f.seq => e = f
    /\ \A c, d \in Calls : c # d /\ seq[c] # 0 => seq[c] # seq[d]
    /\ \A c \in Calls : pc[c] = "insert" => seq[c] \notin Seqs

\* Each step of the ledger is one optimistic append to an append-only log, or
\* no step of it at all.
LogOf == [n \in 1 .. passport.revision |-> (CHOOSE e \in entries : e.seq = n).req]

Chain == INSTANCE LedgerChain WITH log <- LogOf

ImplementsChain == Chain!ChainSpec
=============================================================================
