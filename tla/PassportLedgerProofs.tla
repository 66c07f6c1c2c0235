------------------------ MODULE PassportLedgerProofs -------------------------
(***************************************************************************)
(* Theorems of PassportLedger, for any set of overlapping invocations and  *)
(* any requests: what every mode of append_entry guarantees, what production *)
(* mode does, and that it implements LedgerChain.                          *)
(***************************************************************************)
EXTENDS PassportLedger, SequenceTheorems, TLAPS

\* The types, with the one fact about control they rest on: an invocation that
\* is about to insert its entry has a sequence number.
TypeInv == TypeOK /\ \A c \in Calls : pc[c] = "insert" => seq[c] # 0

\* The invocation that is over leaves well-typed locals behind.
LEMMA LeaveTypes ==
    ASSUME NEW c \in Calls, TypeOK, Leave(c)
    PROVE  /\ pc' \in [Calls -> Phases]
           /\ req' \in [Calls -> Requests]
           /\ rev' \in [Calls -> Nat]
           /\ head' \in [Calls -> Nat]
           /\ seq' \in [Calls -> Nat]
  <1>1. IdleRequest \in Requests
    BY RequestAssumption DEF IdleRequest
  <1> QED
    BY <1>1 DEF TypeOK, Leave, Phases, NoHash

\* A move of the program counter to a phase keeps it well typed.
LEMMA GotoTypes ==
    ASSUME NEW c \in Calls, NEW from, NEW to \in Phases, TypeOK, Goto(c, from, to)
    PROVE  pc' \in [Calls -> Phases]
  BY DEF TypeOK, Goto

\* The rows the handlers write are rows.
LEMMA RowTypes ==
    ASSUME NEW q \in Requests, NEW n \in Nat, NEW row \in Row
    PROVE  CommittedRow(q, n) \in Row /\ FailedRow(row, q) \in Row
  BY DEF CommittedRow, FailedRow, Row, NoRow

LEMMA UpsertTypes ==
    ASSUME NEW c \in Calls, TypeOK, UpsertFailed(c)
    PROVE  idem' \in [Keys -> Row]
  <1>1. req[c] \in Requests /\ req[c].key \in Keys
    BY RequestAssumption DEF TypeOK
  <1>2. FailedRow(idem[req[c].key], req[c]) \in Row
    BY <1>1, RowTypes, 0 \in Nat DEF TypeOK
  <1> QED
    BY <1>1, <1>2 DEF TypeOK, UpsertFailed

\* The entry an invocation writes is an entry.
LEMMA NewEntryTypes ==
    ASSUME NEW c \in Calls, TypeOK, NEW n \in Nat \ {0}
    PROVE  NewEntry(c, n) \in Entry
  BY DEF TypeOK, NewEntry, Entry

\* What acknowledging adds to the history is well typed.
LEMMA AcknowledgeTypes ==
    ASSUME NEW c \in Calls, TypeOK, NEW n \in Nat, Acknowledge(c, n)
    PROVE  acked' \subseteq [req : Requests, seq : Nat]
  BY DEF TypeOK, Acknowledge

\* The transaction keeps the documents well typed.
LEMMA CommitTypes ==
    ASSUME NEW c \in Calls, TypeOK, Commit(c)
    PROVE  /\ passport' \in PassportDoc
           /\ nextSeq' \in Nat
           /\ entries' \subseteq Entry
           /\ receipts' \subseteq Nat
           /\ idem' \in [Keys -> Row]
           /\ conflicts' \subseteq Conflict
  <1>1. req[c] \in Requests /\ req[c].key \in Keys
    BY RequestAssumption DEF TypeOK
  <1>2. nextSeq \in Nat \ {0}
    BY DEF TypeOK, Commit, Insertable
  <1>3. NewEntry(c, nextSeq) \in Entry
    BY <1>2, NewEntryTypes
  <1>4. CommittedRow(req[c], nextSeq) \in Row
    BY <1>1, <1>2 DEF CommittedRow, Row
  <1>5. passport' \in PassportDoc /\ nextSeq' \in Nat
    <2>1. rev[c] + 1 \in Nat /\ nextSeq + 1 \in Nat
      BY <1>2 DEF TypeOK
    <2>2. passport \in PassportDoc
      BY DEF TypeOK
    <2> QED
      BY <1>2, <2>1, <2>2 DEF Commit, PassportDoc
  <1>6. entries' \subseteq Entry /\ receipts' \subseteq Nat
    BY <1>2, <1>3 DEF TypeOK, Commit
  <1>7. idem' \in [Keys -> Row] /\ conflicts' \subseteq Conflict
    BY <1>1, <1>4 DEF TypeOK, Commit
  <1> QED
    BY <1>5, <1>6, <1>7

\* Types and the fact about control, step by step.
LEMMA TypeInvariant == Spec => []TypeInv
  <1>1. Init => TypeInv
    <2> SUFFICES ASSUME Init PROVE TypeInv
      OBVIOUS
    <2>1. IdleRequest \in Requests
      BY RequestAssumption DEF IdleRequest
    <2>2. passport \in PassportDoc
      <3>1. PICK s \in Starts :
               passport = [status |-> s, revision |-> 0, head |-> NoHash, pending |-> FALSE]
        BY DEF Init
      <3>2. s \in {"absent", "legacy", "active"}
        BY ModeAssumption
      <3> QED
        BY <3>1, <3>2 DEF PassportDoc, NoHash
    <2>3. idem \in [Keys -> Row]
      BY DEF Init, Row, NoRow
    <2>4. budget \in [calls : Nat, crashes : Nat, aborts : Nat]
      BY BoundAssumption DEF Init
    <2> QED
      BY <2>1, <2>2, <2>3, <2>4 DEF Init, TypeInv, TypeOK, NoHash, Phases
  <1>2. TypeInv /\ [Next]_vars => TypeOK'
    <2> SUFFICES ASSUME TypeInv, [Next]_vars PROVE TypeOK'
      OBVIOUS
    <2> TypeOK
      BY DEF TypeInv
    <2>1. ASSUME NEW c \in Calls, NEW q \in Requests, Submit(c, q) PROVE TypeOK'
      BY <2>1 DEF TypeOK, Submit, Goto, Phases, store
    <2>2. ASSUME NEW c \in Calls, EnsurePassport(c) PROVE TypeOK'
      <3>1. CASE LoadActive(c)
        BY <3>1 DEF TypeOK, PassportDoc, LoadActive, Goto, Phases, Snapshot, store
      <3>2. CASE FindNoRevision(c)
        BY <3>2 DEF TypeOK, FindNoRevision, Goto, Phases, store, local
      <3>3. CASE UpgradeLegacy(c)
        BY <3>3 DEF TypeOK, PassportDoc, UpgradeLegacy, Goto, Phases, local, NoHash
      <3>4. CASE FindNone(c)
        BY <3>4 DEF TypeOK, FindNone, Goto, Phases, store, local
      <3>5. CASE ProvisionPassport(c)
        BY <3>5 DEF TypeOK, PassportDoc, ProvisionPassport, Goto, Phases, Snapshot, NoHash
      <3>6. CASE ReloadUnderLock(c)
        BY <3>6 DEF TypeOK, ReloadUnderLock, Goto, Phases, store, local
      <3>7. CASE ProvisionDuplicate(c)
        BY <3>7, LeaveTypes DEF TypeOK, ProvisionDuplicate, store
      <3>8. CASE InsertSequenceDoc(c)
        BY <3>8 DEF TypeOK, InsertSequenceDoc, Goto, Phases, local
      <3> QED
        BY <2>2, <3>1, <3>2, <3>3, <3>4, <3>5, <3>6, <3>7, <3>8 DEF EnsurePassport
    <2>3. ASSUME NEW c \in Calls, CheckRequest(c) PROVE TypeOK'
      <3>1. CASE Refuse(c)
        BY <3>1, LeaveTypes DEF TypeOK, Refuse, store
      <3>2. CASE ReturnOriginal(c)
        <4>1. idem[req[c].key] \in Row /\ idem[req[c].key].status = "COMMITTED"
          BY <3>2, RequestAssumption DEF TypeOK, ReturnOriginal, AlreadyCommitted
        <4>2. idem[req[c].key].seq \in Nat
          BY <4>1 DEF Row, NoRow
        <4> QED
          BY <3>2, <4>2, LeaveTypes, AcknowledgeTypes DEF TypeOK, ReturnOriginal, store
      <3>3. CASE RefuseStale(c)
        BY <3>3, LeaveTypes DEF TypeOK, RefuseStale, Conflict, Token
      <3>4. CASE BeginTransaction(c)
        BY <3>4 DEF TypeOK, BeginTransaction, Goto, Phases, store, local
      <3>5. CASE TransactionUnavailable(c)
        BY <3>5, LeaveTypes DEF TypeOK, TransactionUnavailable, store
      <3>6. CASE BeginPlain(c)
        BY <3>6 DEF TypeOK, BeginPlain, Goto, Phases, store, local
      <3> QED
        BY <2>3, <3>1, <3>2, <3>3, <3>4, <3>5, <3>6 DEF CheckRequest
    <2>4. ASSUME NEW c \in Calls, CommitBody(c) PROVE TypeOK'
      <3>1. CASE CommitTxn(c)
        BY <3>1, CommitTypes, LeaveTypes, AcknowledgeTypes DEF TypeOK, CommitTxn
      <3>2. CASE CommitUnacknowledged(c)
        BY <3>2, CommitTypes DEF TypeOK, CommitUnacknowledged, Goto, Phases, local
      <3>3. CASE RejectTxn(c)
        BY <3>3 DEF TypeOK, RejectTxn, Goto, Phases, store, local
      <3>4. CASE LoseTxn(c)
        BY <3>4 DEF TypeOK, LoseTxn, Goto, Phases, store, local
      <3>5. CASE ClaimRevision(c)
        <4>1. rev[c] + 1 \in Nat /\ passport \in PassportDoc
          BY DEF TypeOK
        <4>2. passport' \in PassportDoc
          BY <3>5, <4>1 DEF ClaimRevision, PassportDoc
        <4> QED
          BY <3>5, <4>2 DEF TypeOK, ClaimRevision, Goto, Phases, local
      <3>6. CASE LoseClaim(c)
        BY <3>6 DEF TypeOK, LoseClaim, Goto, Phases, store, local
      <3>7. CASE AllocateSeq(c)
        BY <3>7 DEF TypeOK, AllocateSeq, Goto, Phases
      <3>8. CASE SequenceMissing(c)
        BY <3>8 DEF TypeOK, SequenceMissing, Goto, Phases, store, local
      <3>9. CASE InsertReceipt(c)
        BY <3>9 DEF TypeOK, InsertReceipt, Goto, Phases, local
      <3>10. CASE AdvanceHead(c)
        BY <3>10 DEF TypeOK, PassportDoc, AdvanceHead, Goto, Phases, local
      <3>11. CASE InsertEntry(c)
        <4>1. seq[c] \in Nat \ {0}
          BY <3>11 DEF TypeInv, TypeOK, InsertEntry, Goto
        <4>2. NewEntry(c, seq[c]) \in Entry
          BY <4>1, NewEntryTypes
        <4> QED
          BY <3>11, <4>2 DEF TypeOK, InsertEntry, Goto, Phases, local
      <3>12. CASE RecordKey(c)
        <4>1. req[c] \in Requests /\ req[c].key \in Keys /\ seq[c] \in Nat
          BY RequestAssumption DEF TypeOK
        <4>2. CommittedRow(req[c], seq[c]) \in Row
          BY <4>1 DEF CommittedRow, Row
        <4> QED
          BY <3>12, <4>1, <4>2 DEF TypeOK, RecordKey, Goto, Phases, local
      <3>13. CASE KeyTaken(c)
        BY <3>13 DEF TypeOK, KeyTaken, Goto, Phases, store, local
      <3>14. CASE ReturnCommitted(c)
        <4>1. seq[c] \in Nat
          BY DEF TypeOK
        <4> QED
          BY <3>14, <4>1, LeaveTypes, AcknowledgeTypes DEF TypeOK, ReturnCommitted, store
      <3> QED
        BY <2>4, <3>1, <3>2, <3>3, <3>4, <3>5, <3>6, <3>7, <3>8, <3>9, <3>10, <3>11,
           <3>12, <3>13, <3>14 DEF CommitBody
    <2>5. ASSUME NEW c \in Calls, HandleError(c) PROVE TypeOK'
      <3>1. CASE Raise(c)
        BY <3>1 DEF TypeOK, Raise, Phases, store, local
      <3>2. CASE RecordRace(c)
        BY <3>2 DEF TypeOK, RecordRace, Goto, Phases, local, Conflict, Token
      <3>3. CASE MarkRaceFailed(c)
        BY <3>3, LeaveTypes, UpsertTypes DEF TypeOK, MarkRaceFailed
      <3>4. CASE RollbackClaim(c)
        BY <3>4 DEF TypeOK, PassportDoc, RollbackClaim, Goto, Phases, local
      <3>5. CASE MarkFailed(c)
        BY <3>5, LeaveTypes, UpsertTypes DEF TypeOK, MarkFailed
      <3>6. CASE Crash(c)
        BY <3>6, LeaveTypes DEF TypeOK, Crash, store
      <3>7. CASE RollbackRaises(c)
        BY <3>7 DEF TypeOK, RollbackRaises, Goto, Phases, store, local
      <3> QED
        BY <2>5, <3>1, <3>2, <3>3, <3>4, <3>5, <3>6, <3>7 DEF HandleError
    <2>6. CASE UNCHANGED vars
      BY <2>6 DEF TypeOK, vars, store, local
    <2> QED
      BY <2>1, <2>2, <2>3, <2>4, <2>5, <2>6 DEF Next
  <1>3. TypeInv /\ [Next]_vars => TypeInv'
    <2> SUFFICES ASSUME TypeInv, [Next]_vars,
                        NEW d \in Calls, pc'[d] = "insert"
                 PROVE  seq'[d] # 0
      BY <1>2 DEF TypeInv
    <2> USE DEF TypeInv, TypeOK
    <2>1. ASSUME NEW c \in Calls, NEW q \in Requests, Submit(c, q) PROVE seq'[d] # 0
      BY <2>1 DEF Submit, Goto
    <2>2. ASSUME NEW c \in Calls, EnsurePassport(c) PROVE seq'[d] # 0
      BY <2>2 DEF EnsurePassport, LoadActive, FindNoRevision, UpgradeLegacy, FindNone,
         ProvisionPassport, ReloadUnderLock, ProvisionDuplicate, InsertSequenceDoc,
         Goto, Leave, Snapshot, local
    <2>3. ASSUME NEW c \in Calls, CheckRequest(c) PROVE seq'[d] # 0
      BY <2>3 DEF CheckRequest, Refuse, ReturnOriginal, RefuseStale, BeginTransaction,
         TransactionUnavailable, BeginPlain, Goto, Leave, local
    <2>4. ASSUME NEW c \in Calls, CommitBody(c) PROVE seq'[d] # 0
      BY <2>4 DEF CommitBody, CommitTxn, CommitUnacknowledged, RejectTxn, LoseTxn,
         ClaimRevision, LoseClaim, AllocateSeq, SequenceMissing, InsertEntry,
         AdvanceHead, InsertReceipt, RecordKey, KeyTaken, ReturnCommitted,
         Goto, Leave, local
    <2>5. ASSUME NEW c \in Calls, HandleError(c) PROVE seq'[d] # 0
      BY <2>5 DEF HandleError, Raise, RecordRace, MarkRaceFailed, RollbackClaim,
         RollbackRaises, MarkFailed, Crash, Goto, Leave, local
    <2>6. CASE UNCHANGED vars
      BY <2>6 DEF vars, local
    <2> QED
      BY <2>1, <2>2, <2>3, <2>4, <2>5, <2>6 DEF Next
  <1> QED
    BY <1>1, <1>3, PTL DEF Spec

\* Every document, local and history of the ledger keeps its type, in every
\* mode of append_entry.
THEOREM TypeCorrect == Spec => []TypeOK
  BY TypeInvariant, PTL DEF TypeInv

----------------------------------------------------------------------------
(* Production mode.  The invariant behind the chain: the documents always   *)
(* agree with each other, because only a whole transaction changes them.    *)

Production == Strict /\ Starts = {"absent"}

\* A revision is never claimed ahead of its entry.
NoClaim == ~passport.pending

\* The passport document counts the entries.
HeadCounts ==
    /\ passport.status # "legacy"
    /\ passport.status = "absent" => passport.revision = 0 /\ nextSeq = 0
    /\ passport.head = passport.revision
    /\ nextSeq \in {0, passport.revision + 1}
    /\ nextSeq = 0 => passport.revision = 0

\* The entries are numbered without a gap, each linked to the one before it.
EntriesLinked ==
    /\ \A e \in entries :
          /\ e.seq <= passport.revision
          /\ e.prior = e.seq - 1
          /\ e.revision = e.seq
    /\ \A n \in 1 .. passport.revision : \E e \in entries : e.seq = n
    /\ \A e, f \in entries : e.seq = f.seq => e = f

\* No invocation is ever in a step of the plain path; a snapshot is of one
\* moment; the sequence document is still missing when it is inserted.
ControlInv ==
    /\ \A c \in Calls :
          /\ pc[c] \notin {"upgrade", "claim", "alloc", "insert", "advance",
                            "receipt", "record", "reread"}
          /\ pc[c] \in {"check", "txn"} => head[c] = rev[c]
          /\ pc[c] = "seqdoc" => /\ passport.status = "active"
                                 /\ nextSeq = 0
                                 /\ rev[c] = 0 /\ head[c] = 0
    /\ \A c, d \in Calls : pc[c] = "seqdoc" /\ pc[d] = "seqdoc" => c = d

ProductionInv == TypeInv /\ NoClaim /\ HeadCounts /\ EntriesLinked /\ ControlInv

\* In production mode the ledger documents are changed in three ways only.
LEMMA ProductionStep ==
    ASSUME Production, ProductionInv, [Next]_vars
    PROVE  \/ UNCHANGED <<passport, nextSeq, entries>>
           \/ \E c \in Calls : ProvisionPassport(c)
           \/ \E c \in Calls : InsertSequenceDoc(c)
           \/ \E c \in Calls : Commit(c)
  <1> DEFINE Same == UNCHANGED <<passport, nextSeq, entries>>
  <1> USE DEF store
  <1>1. ASSUME NEW c \in Calls, NEW q \in Requests, Submit(c, q) PROVE Same
    BY <1>1 DEF Submit
  <1>2. ASSUME NEW c \in Calls, EnsurePassport(c)
        PROVE  Same \/ ProvisionPassport(c) \/ InsertSequenceDoc(c)
    <2>1. ~UpgradeLegacy(c)
      BY DEF ProductionInv, ControlInv, UpgradeLegacy, Goto
    <2> QED
      BY <1>2, <2>1 DEF EnsurePassport, LoadActive, FindNoRevision, FindNone,
         ReloadUnderLock, ProvisionDuplicate
  <1>3. ASSUME NEW c \in Calls, CheckRequest(c) PROVE Same
    BY <1>3 DEF CheckRequest, Refuse, ReturnOriginal, RefuseStale, BeginTransaction,
       TransactionUnavailable, BeginPlain
  <1>4. ASSUME NEW c \in Calls, CommitBody(c) PROVE Same \/ Commit(c)
    <2>1. ~ClaimRevision(c) /\ ~AllocateSeq(c) /\ ~InsertEntry(c) /\ ~AdvanceHead(c)
      BY DEF ProductionInv, ControlInv, ClaimRevision, AllocateSeq, InsertEntry,
         AdvanceHead, Goto
    <2> QED
      BY <1>4, <2>1 DEF CommitBody, CommitTxn, CommitUnacknowledged, RejectTxn,
         LoseTxn, LoseClaim, SequenceMissing, InsertReceipt, RecordKey, KeyTaken,
         ReturnCommitted
  <1>5. ASSUME NEW c \in Calls, HandleError(c) PROVE Same
    <2>1. RollbackClaim(c) => Same
      BY DEF ProductionInv, NoClaim, RollbackClaim
    <2> QED
      BY <1>5, <2>1 DEF HandleError, Raise, RecordRace, MarkRaceFailed,
         RollbackRaises, MarkFailed, Crash
  <1>6. CASE UNCHANGED vars
    BY <1>6 DEF vars
  <1> QED
    BY <1>1, <1>2, <1>3, <1>4, <1>5, <1>6 DEF Next

\* A transaction appends the next entry, linked to the last one.
LEMMA CommitExtends ==
    ASSUME ProductionInv, NEW c \in Calls, Commit(c)
    PROVE  LET n == passport.revision + 1 IN
           /\ n \in Nat \ {0}
           /\ passport'.status = "active" /\ passport'.revision = n /\ passport'.head = n
           /\ passport'.pending = FALSE
           /\ nextSeq' = n + 1
           /\ entries' = entries \cup
                {[seq |-> n, prior |-> n - 1, revision |-> n, req |-> req[c]]}
  <1> DEFINE n == passport.revision + 1
  <1>1. passport \in PassportDoc /\ rev[c] \in Nat /\ nextSeq \in Nat
    BY DEF ProductionInv, TypeInv, TypeOK
  <1>2. passport.status = "active" /\ passport.revision = rev[c] /\ head[c] = rev[c]
    BY DEF ProductionInv, ControlInv, Commit, CasMatches
  <1>3. nextSeq = n
    BY DEF ProductionInv, HeadCounts, Commit, Insertable
  <1>4. n \in Nat \ {0} /\ n - 1 = head[c]
    BY <1>1, <1>2 DEF PassportDoc
  <1>5. /\ passport' = [passport EXCEPT !.revision = n, !.head = n, !.pending = FALSE]
        /\ nextSeq' = n + 1
        /\ entries' = entries \cup {NewEntry(c, n)}
    BY <1>2, <1>3 DEF Commit
  <1>6. NewEntry(c, n) = [seq |-> n, prior |-> n - 1, revision |-> n, req |-> req[c]]
    BY <1>2, <1>4 DEF NewEntry
  <1> QED
    BY <1>1, <1>2, <1>4, <1>5, <1>6 DEF PassportDoc

\* The documents stay consistent with each other.
LEMMA DocumentsPreserved ==
    ASSUME Production, ProductionInv, [Next]_vars
    PROVE  NoClaim' /\ HeadCounts' /\ EntriesLinked'
  <1> USE DEF NoClaim
  <1>0. passport \in PassportDoc /\ nextSeq \in Nat /\ entries \subseteq Entry
    BY DEF ProductionInv, TypeInv, TypeOK
  <1>1. CASE UNCHANGED <<passport, nextSeq, entries>>
    BY <1>1 DEF ProductionInv, HeadCounts, EntriesLinked
  <1>2. ASSUME NEW c \in Calls, ProvisionPassport(c)
        PROVE  NoClaim' /\ HeadCounts' /\ EntriesLinked'
    <2>1. passport' = [passport EXCEPT !.status = "active"] /\ UNCHANGED <<nextSeq, entries>>
      BY <1>2 DEF ProvisionPassport
    <2>2. /\ passport'.status = "active" /\ passport'.revision = passport.revision
          /\ passport'.head = passport.head /\ passport'.pending = passport.pending
      BY <1>0, <2>1 DEF PassportDoc
    <2> QED
      BY <2>1, <2>2 DEF ProductionInv, HeadCounts, EntriesLinked
  <1>3. ASSUME NEW c \in Calls, InsertSequenceDoc(c)
        PROVE  NoClaim' /\ HeadCounts' /\ EntriesLinked'
    <2>1. nextSeq' = 1 /\ UNCHANGED <<passport, entries>>
      BY <1>3 DEF InsertSequenceDoc
    <2>2. nextSeq = 0 /\ passport.status = "active"
      BY <1>3 DEF ProductionInv, ControlInv, InsertSequenceDoc, Goto
    <2>3. passport.revision = 0
      BY <2>2 DEF ProductionInv, HeadCounts
    <2> QED
      BY <2>1, <2>2, <2>3 DEF ProductionInv, HeadCounts, EntriesLinked
  <1>4. ASSUME NEW c \in Calls, Commit(c)
        PROVE  NoClaim' /\ HeadCounts' /\ EntriesLinked'
    <2> DEFINE n == passport.revision + 1
               new == [seq |-> n, prior |-> n - 1, revision |-> n, req |-> req[c]]
    <2>1. /\ n \in Nat \ {0}
          /\ passport'.status = "active" /\ passport'.revision = n /\ passport'.head = n
          /\ passport'.pending = FALSE
          /\ nextSeq' = n + 1
          /\ entries' = entries \cup {new}
      BY <1>4, CommitExtends
    <2>2. HeadCounts'
      BY <2>1 DEF HeadCounts
    <2>3. new.seq = n /\ new.prior = n - 1 /\ new.revision = n
      OBVIOUS
    <2> HIDE DEF new
    <2>4. passport.revision \in Nat /\ \A e \in entries : e.seq \in Nat
      BY <1>0 DEF PassportDoc, Entry
    <2>5. ASSUME NEW e \in entries'
          PROVE  e.seq <= n /\ e.prior = e.seq - 1 /\ e.revision = e.seq
      BY <2>1, <2>3, <2>4, <2>5 DEF ProductionInv, EntriesLinked
    <2>6. ASSUME NEW m \in 1 .. n PROVE \E e \in entries' : e.seq = m
      <3>1. CASE m = n
        BY <2>1, <2>3, <3>1
      <3>2. CASE m # n
        BY <2>1, <2>4, <3>2 DEF ProductionInv, EntriesLinked
      <3> QED
        BY <3>1, <3>2
    <2>7. ASSUME NEW e \in entries', NEW f \in entries', e.seq = f.seq PROVE e = f
      <3>1. \A g \in entries : g.seq # n
        BY <2>4 DEF ProductionInv, EntriesLinked
      <3> QED
        BY <2>1, <2>3, <2>7, <3>1 DEF ProductionInv, EntriesLinked
    <2> QED
      BY <2>1, <2>2, <2>5, <2>6, <2>7 DEF EntriesLinked
  <1> QED
    BY <1>1, <1>2, <1>3, <1>4, ProductionStep

\* Control stays where production mode keeps it.
LEMMA ControlPreserved ==
    ASSUME Production, ProductionInv, [Next]_vars
    PROVE  ControlInv'
  <1> USE DEF ProductionInv, TypeInv, TypeOK, ControlInv, NoHash
  <1>1. ASSUME NEW c \in Calls, NEW q \in Requests, Submit(c, q) PROVE ControlInv'
    BY <1>1 DEF Submit, Goto, store
  <1>2. ASSUME NEW c \in Calls, EnsurePassport(c) PROVE ControlInv'
    <2>1. CASE LoadActive(c)
      BY <2>1 DEF LoadActive, Goto, Snapshot, store, HeadCounts, PassportDoc
    <2>2. CASE FindNoRevision(c)
      BY <2>2 DEF FindNoRevision, HeadCounts
    <2>3. CASE UpgradeLegacy(c)
      BY <2>3 DEF UpgradeLegacy, Goto
    <2>4. CASE FindNone(c)
      BY <2>4 DEF FindNone, Goto, store, local
    <2>5. CASE ProvisionPassport(c)
      <3>1. passport'.status = "active" /\ nextSeq' = 0
        BY <2>5 DEF ProvisionPassport, HeadCounts, PassportDoc
      <3>2. \A d \in Calls : pc[d] # "seqdoc"
        BY <2>5 DEF ProvisionPassport
      <3> QED
        BY <2>5, <3>1, <3>2 DEF ProvisionPassport, Goto, Snapshot
    <2>6. CASE ReloadUnderLock(c)
      BY <2>6 DEF ReloadUnderLock, Goto, store, local
    <2>7. CASE ProvisionDuplicate(c)
      BY <2>7 DEF ProvisionDuplicate, Leave, store
    <2>8. CASE InsertSequenceDoc(c)
      <3>1. \A d \in Calls : pc'[d] # "seqdoc"
        BY <2>8 DEF InsertSequenceDoc, Goto
      <3> QED
        BY <2>8, <3>1 DEF InsertSequenceDoc, Goto, local
    <2> QED
      BY <1>2, <2>1, <2>2, <2>3, <2>4, <2>5, <2>6, <2>7, <2>8 DEF EnsurePassport
  <1>3. ASSUME NEW c \in Calls, CheckRequest(c) PROVE ControlInv'
    <2>1. CASE Refuse(c)
      BY <2>1 DEF Refuse, Leave, store
    <2>2. CASE ReturnOriginal(c)
      BY <2>2 DEF ReturnOriginal, Leave, store
    <2>3. CASE RefuseStale(c)
      BY <2>3 DEF RefuseStale, Leave
    <2>4. CASE BeginTransaction(c)
      BY <2>4 DEF BeginTransaction, Goto, store, local
    <2>5. CASE TransactionUnavailable(c)
      BY <2>5 DEF TransactionUnavailable, Leave, store
    <2>6. CASE BeginPlain(c)
      BY <2>6 DEF BeginPlain, Production
    <2> QED
      BY <1>3, <2>1, <2>2, <2>3, <2>4, <2>5, <2>6 DEF CheckRequest
  <1>4. ASSUME NEW c \in Calls, CommitBody(c) PROVE ControlInv'
    <2>1. Commit(c) => \A d \in Calls : pc[d] # "seqdoc"
      BY DEF Commit, Insertable
    <2>2. CASE CommitTxn(c)
      BY <2>1, <2>2 DEF CommitTxn, Leave
    <2>3. CASE CommitUnacknowledged(c)
      BY <2>1, <2>3 DEF CommitUnacknowledged, Goto, local
    <2>4. CASE RejectTxn(c)
      BY <2>4 DEF RejectTxn, Goto, store, local
    <2>5. CASE LoseTxn(c)
      BY <2>5 DEF LoseTxn, Goto, store, local
    <2> QED
      BY <1>4, <2>2, <2>3, <2>4, <2>5 DEF CommitBody, ClaimRevision, LoseClaim,
         AllocateSeq, SequenceMissing, InsertEntry, AdvanceHead, InsertReceipt,
         RecordKey, KeyTaken, ReturnCommitted, Goto
  <1>5. ASSUME NEW c \in Calls, HandleError(c) PROVE ControlInv'
    <2>1. CASE Raise(c)
      BY <2>1 DEF Raise, store, local
    <2>2. CASE RecordRace(c)
      BY <2>2 DEF RecordRace, Goto, local
    <2>3. CASE MarkRaceFailed(c)
      BY <2>3 DEF MarkRaceFailed, Leave
    <2>4. CASE RollbackClaim(c)
      BY <2>4 DEF NoClaim, RollbackClaim, Goto, local
    <2>5. CASE MarkFailed(c)
      BY <2>5 DEF MarkFailed, Leave
    <2>6. CASE Crash(c)
      BY <2>6 DEF Crash, Leave, store
    <2>7. CASE RollbackRaises(c)
      BY <2>7 DEF RollbackRaises, Goto, store, local
    <2> QED
      BY <1>5, <2>1, <2>2, <2>3, <2>4, <2>5, <2>6, <2>7 DEF HandleError
  <1>6. CASE UNCHANGED vars
    BY <1>6 DEF vars, store, local
  <1> QED
    BY <1>1, <1>2, <1>3, <1>4, <1>5, <1>6 DEF Next

\* The invariant of production mode.
THEOREM ProductionInvariant ==
    ASSUME Production PROVE Spec => []ProductionInv
  <1>1. Init => NoClaim /\ HeadCounts /\ EntriesLinked /\ ControlInv
    <2> SUFFICES ASSUME Init PROVE NoClaim /\ HeadCounts /\ EntriesLinked /\ ControlInv
      OBVIOUS
    <2>1. /\ passport.status = "absent" /\ passport.revision = 0
          /\ passport.head = 0 /\ passport.pending = FALSE
      BY DEF Init, Production, NoHash
    <2>2. NoClaim /\ HeadCounts /\ EntriesLinked
      BY <2>1 DEF Init, NoClaim, HeadCounts, EntriesLinked
    <2>3. ControlInv
      BY DEF Init, ControlInv
    <2> QED
      BY <2>2, <2>3
  <1>2. ProductionInv /\ [Next]_vars => NoClaim' /\ HeadCounts' /\ EntriesLinked'
    BY DocumentsPreserved
  <1>3. ProductionInv /\ [Next]_vars => ControlInv'
    BY ControlPreserved
  <1> QED
    BY <1>1, <1>2, <1>3, TypeInvariant, PTL DEF Spec, ProductionInv

\* Entries that are linked verify.
LEMMA LinkedVerifies ==
    ASSUME ProductionInv PROVE ChainVerifies
  <1>0. /\ passport \in PassportDoc
        /\ \A e \in entries : e.seq \in Nat \ {0}
        /\ passport.revision \in Nat
    BY DEF ProductionInv, TypeInv, TypeOK, PassportDoc, Entry
  <1>1. \A n \in Nat : n \in Seqs <=> n \in 1 .. passport.revision
    BY <1>0 DEF ProductionInv, EntriesLinked, Seqs
  <1>2. Seqs \subseteq Nat
    BY <1>0 DEF Seqs
  <1>3. ASSUME NEW e \in entries PROVE HashBefore(e.seq) = e.seq - 1
    <2>1. e.seq \in Seqs /\ e.seq \in 1 .. passport.revision
      BY <1>0, <1>1 DEF Seqs
    <2>2. CASE e.seq = 1
      BY <1>0, <1>1, <1>2, <2>2 DEF HashBefore, NoHash
    <2>3. CASE e.seq # 1
      <3> DEFINE p == e.seq - 1
                 Before(m) == m < e.seq /\ \A k \in Seqs : k < e.seq => k <= m
      <3>1. p \in Seqs /\ Before(p)
        BY <1>0, <1>1, <1>2, <2>1, <2>3
      <3>2. \A m \in Seqs : Before(m) => m = p
        BY <1>0, <1>1, <1>2, <2>1, <3>1
      <3>3. HashBefore(e.seq) = CHOOSE m \in Seqs : Before(m)
        BY <3>1 DEF HashBefore
      <3> HIDE DEF Before
      <3>4. (CHOOSE m \in Seqs : Before(m)) \in Seqs /\ Before(CHOOSE m \in Seqs : Before(m))
        BY <3>1
      <3> QED
        BY <3>2, <3>3, <3>4
    <2> QED
      BY <2>2, <2>3
  <1>4. ~ \E e, f \in entries : e # f /\ e.seq = f.seq
    BY DEF ProductionInv, EntriesLinked
  <1>5. ~ \E e \in entries : e.seq # HashBefore(e.seq) + 1
    BY <1>0, <1>3
  <1>6. ~ \E e \in entries : e.prior # HashBefore(e.seq)
    BY <1>3 DEF ProductionInv, EntriesLinked
  <1>7. ~ \E e \in entries : IsLast(e) /\ HeadMismatch(e)
    <2> SUFFICES ASSUME NEW e \in entries, IsLast(e) PROVE ~HeadMismatch(e)
      OBVIOUS
    <2>1. e.seq \in 1 .. passport.revision
      BY <1>0, <1>1 DEF Seqs
    <2>2. passport.revision \in Seqs
      BY <1>0, <1>1, <2>1
    <2>3. e.seq = passport.revision
      BY <1>0, <2>1, <2>2 DEF IsLast
    <2> QED
      BY <2>3 DEF HeadMismatch, ProductionInv, HeadCounts, EntriesLinked
  <1>8. CASE passport.status = "absent"
    BY <1>8, <1>4, <1>5, <1>6, <1>7 DEF ChainVerifies, VerifyResult
  <1>9. CASE passport.status # "absent"
    BY <1>9, <1>4, <1>5, <1>6, <1>7 DEF ChainVerifies, VerifyResult
  <1> QED
    BY <1>8, <1>9

\* In production mode, with or without a transaction-capable deployment, the
\* ledger verifies in every state of every run, for any number of overlapping
\* invocations that abort, lose their answer or die at any await.
THEOREM ChainAlwaysVerifies ==
    ASSUME Production PROVE Spec => []ChainVerifies
  BY ProductionInvariant, LinkedVerifies, PTL

----------------------------------------------------------------------------
(* Any mode: what is allocated in a step of its own is used once.           *)

\* Sequence numbers are handed out below the counter, which only one
\* invocation ever creates.
SequenceInv ==
    /\ TypeInv
    /\ passport.status = "absent" => nextSeq = 0
    /\ \A e \in entries : e.seq < nextSeq
    /\ \A c \in Calls : seq[c] = 0 \/ seq[c] < nextSeq
    /\ \A c \in Calls : pc[c] = "seqdoc" => nextSeq = 0 /\ passport.status = "active"
    /\ \A c, d \in Calls : pc[c] = "seqdoc" /\ pc[d] = "seqdoc" => c = d
    /\ SequenceUsedOnce

\* A step that neither allocates, inserts nor creates the counter.
NoSequenceStep(c) ==
    /\ UNCHANGED <<nextSeq, entries>>
    /\ seq' = seq \/ seq' = [seq EXCEPT ![c] = 0]
    /\ \A d \in Calls : d # c => pc'[d] = pc[d]
    /\ pc'[c] \notin {"insert", "seqdoc"}
    /\ passport'.status \in {passport.status, "active"}

\* Only four actions touch sequence numbers.
LEMMA SequenceSteps ==
    ASSUME TypeInv, NEW c \in Calls,
           \/ \E q \in Requests : Submit(c, q)
           \/ EnsurePassport(c)
           \/ CheckRequest(c)
           \/ CommitBody(c)
           \/ HandleError(c)
    PROVE  \/ NoSequenceStep(c)
           \/ ProvisionPassport(c)
           \/ InsertSequenceDoc(c)
           \/ Commit(c) /\ (CommitTxn(c) \/ CommitUnacknowledged(c))
           \/ AllocateSeq(c)
           \/ InsertEntry(c)
  <1>0. passport \in PassportDoc /\ pc \in [Calls -> Phases] /\ seq \in [Calls -> Nat]
    BY DEF TypeInv, TypeOK
  <1> USE <1>0 DEF NoSequenceStep, store, local
  <1>1. ASSUME NEW q \in Requests, Submit(c, q) PROVE NoSequenceStep(c)
    BY <1>1 DEF Submit, Goto
  <1>2. CASE EnsurePassport(c)
    <2>1. CASE LoadActive(c)
      BY <2>1 DEF LoadActive, Goto
    <2>2. CASE FindNoRevision(c)
      BY <2>2 DEF FindNoRevision, Goto
    <2>3. CASE UpgradeLegacy(c)
      BY <2>3 DEF UpgradeLegacy, Goto, PassportDoc
    <2>4. CASE FindNone(c)
      BY <2>4 DEF FindNone, Goto
    <2>5. CASE ReloadUnderLock(c)
      BY <2>5 DEF ReloadUnderLock, Goto
    <2>6. CASE ProvisionDuplicate(c)
      BY <2>6 DEF ProvisionDuplicate, Leave
    <2> QED
      BY <1>2, <2>1, <2>2, <2>3, <2>4, <2>5, <2>6 DEF EnsurePassport
  <1>3. CASE CheckRequest(c)
    BY <1>3 DEF CheckRequest, Refuse, ReturnOriginal, RefuseStale, BeginTransaction,
       TransactionUnavailable, BeginPlain, Goto, Leave
  <1>4. CASE CommitBody(c)
    <2>1. CASE ClaimRevision(c) \/ AdvanceHead(c)
      BY <2>1 DEF ClaimRevision, AdvanceHead, Goto, PassportDoc
    <2>2. CASE RejectTxn(c) \/ LoseTxn(c) \/ LoseClaim(c) \/ SequenceMissing(c) \/ KeyTaken(c)
      BY <2>2 DEF RejectTxn, LoseTxn, LoseClaim, SequenceMissing, KeyTaken, Goto
    <2>3. CASE InsertReceipt(c) \/ RecordKey(c) \/ ReturnCommitted(c)
      BY <2>3 DEF InsertReceipt, RecordKey, ReturnCommitted, Goto, Leave
    <2>4. CommitTxn(c) \/ CommitUnacknowledged(c) => Commit(c)
      BY DEF CommitTxn, CommitUnacknowledged
    <2> QED
      BY <1>4, <2>1, <2>2, <2>3, <2>4 DEF CommitBody
  <1>5. CASE HandleError(c)
    <2>1. CASE RollbackClaim(c)
      BY <2>1 DEF RollbackClaim, Goto, PassportDoc
    <2>2. CASE Raise(c) \/ RecordRace(c) \/ RollbackRaises(c)
      BY <2>2 DEF Raise, RecordRace, RollbackRaises, Goto
    <2>3. CASE MarkRaceFailed(c) \/ MarkFailed(c) \/ Crash(c)
      BY <2>3 DEF MarkRaceFailed, MarkFailed, Crash, Leave
    <2> QED
      BY <1>5, <2>1, <2>2, <2>3 DEF HandleError
  <1> QED
    BY <1>1, <1>2, <1>3, <1>4, <1>5

\* The sequence numbers in use and in flight stay apart, step by step.
LEMMA SequenceKept ==
    ASSUME SequenceInv, TypeInv', [Next]_vars
    PROVE  SequenceInv'
  <1>0. /\ passport \in PassportDoc /\ nextSeq \in Nat /\ pc \in [Calls -> Phases]
        /\ seq \in [Calls -> Nat]
        /\ \A e \in entries : e.seq \in Nat
    BY DEF SequenceInv, TypeInv, TypeOK, Entry
  <1>00. \A d \in Calls : seq[d] \in Nat
    BY <1>0
  <1> USE DEF SequenceInv, SequenceUsedOnce, Seqs
  <1>1. ASSUME NEW c \in Calls, NoSequenceStep(c) PROVE SequenceInv'
    <2>1. \A d \in Calls : seq'[d] \in {0, seq[d]}
      BY <1>0, <1>1 DEF NoSequenceStep
    <2>2. \A d \in Calls : d # c => seq'[d] = seq[d]
      BY <1>0, <1>1 DEF NoSequenceStep
    <2>3. \A d \in Calls : pc'[d] \in {"insert", "seqdoc"} => d # c /\ pc[d] = pc'[d]
      BY <1>1 DEF NoSequenceStep
    <2>4. SequenceUsedOnce'
      BY <1>0, <1>1, <2>1, <2>2, <2>3 DEF NoSequenceStep
    <2>5. /\ passport'.status = "absent" => nextSeq' = 0
          /\ \A d \in Calls : pc'[d] = "seqdoc" => nextSeq' = 0 /\ passport'.status = "active"
      BY <1>1, <2>3 DEF NoSequenceStep
    <2> QED
      BY <1>1, <2>1, <2>3, <2>4, <2>5 DEF NoSequenceStep
  <1>2. ASSUME NEW c \in Calls, ProvisionPassport(c) PROVE SequenceInv'
    <2>1. /\ passport.status = "absent" /\ passport'.status = "active"
          /\ UNCHANGED <<nextSeq, entries, seq>>
          /\ pc' = [pc EXCEPT ![c] = "seqdoc"]
      BY <1>0, <1>2 DEF ProvisionPassport, Goto, PassportDoc
    <2>2. \A d \in Calls : pc[d] # "seqdoc"
      BY <2>1
    <2> QED
      BY <1>0, <2>1, <2>2
  <1>3. ASSUME NEW c \in Calls, InsertSequenceDoc(c) PROVE SequenceInv'
    <2>1. /\ pc[c] = "seqdoc" /\ pc' = [pc EXCEPT ![c] = "check"]
          /\ nextSeq' = 1
          /\ UNCHANGED <<passport, entries, seq>>
      BY <1>3 DEF InsertSequenceDoc, Goto, local
    <2>2. nextSeq = 0 /\ passport.status = "active"
      BY <2>1
    <2>3. entries = {} /\ \A d \in Calls : seq[d] = 0
      BY <1>0, <1>00, <2>2
    <2>4. \A d \in Calls : pc'[d] # "seqdoc" /\ (pc'[d] = "insert" => pc[d] = "insert")
      BY <1>0, <2>1
    <2> QED
      BY <2>1, <2>2, <2>3, <2>4
  <1>4. ASSUME NEW c \in Calls, Commit(c), CommitTxn(c) \/ CommitUnacknowledged(c)
        PROVE  SequenceInv'
    <2>1. /\ nextSeq # 0 /\ nextSeq' = nextSeq + 1
          /\ entries' = entries \cup {NewEntry(c, nextSeq)}
          /\ passport'.status = passport.status
      BY <1>0, <1>4 DEF Commit, Insertable, PassportDoc
    <2>2. NewEntry(c, nextSeq).seq = nextSeq
      BY DEF NewEntry
    <2> DEFINE new == NewEntry(c, nextSeq)
    <2>3. \A d \in Calls : d # c => pc'[d] = pc[d] /\ seq'[d] = seq[d]
      BY <1>0, <1>4 DEF CommitTxn, CommitUnacknowledged, Goto, Leave, local
    <2>4. pc'[c] \notin {"insert", "seqdoc"} /\ seq'[c] \in {0, seq[c]}
      BY <1>0, <1>4 DEF CommitTxn, CommitUnacknowledged, Goto, Leave, local
    <2>5. \A d \in Calls : pc[d] # "seqdoc"
      BY <2>1
    <2>6. \A d \in Calls : seq'[d] = 0 \/ seq'[d] < nextSeq
      BY <2>3, <2>4
    <2>7. \A d \in Calls : pc'[d] # "seqdoc" /\ (pc'[d] = "insert" => pc[d] = "insert" /\ d # c)
      BY <2>3, <2>4, <2>5
    <2>8. \A d \in Calls : seq'[d] \in Nat
      BY <1>00, <2>3, <2>4
    <2>9. /\ \A e \in entries' : e.seq < nextSeq'
          /\ \A d \in Calls : seq'[d] = 0 \/ seq'[d] < nextSeq'
      <3> HIDE DEF new
      <3> QED BY <1>0, <2>1, <2>2, <2>6, <2>8
    <2>10. \A e, f \in entries' : e.seq = f.seq => e = f
      <3>1. \A e \in entries : e.seq # nextSeq
        BY <1>0
      <3> QED
        BY <2>1, <2>2, <3>1
    <2>11. \A a, b \in Calls : a # b /\ seq'[a] # 0 => seq'[a] # seq'[b]
      BY <2>3, <2>4
    <2>12. ASSUME NEW d \in Calls, pc'[d] = "insert" PROVE seq'[d] \notin Seqs'
      <3>1. d # c /\ pc[d] = "insert" /\ seq'[d] = seq[d] /\ seq[d] # 0
        BY <2>3, <2>7, <2>12 DEF TypeInv
      <3>2. seq[d] < nextSeq
        BY <3>1
      <3>3. \A e \in entries' : e.seq # seq[d]
        BY <1>0, <1>00, <2>1, <2>2, <3>1, <3>2
      <3> QED
        BY <3>1, <3>3
    <2> QED
      BY <2>1, <2>7, <2>9, <2>10, <2>11, <2>12
  <1>5. ASSUME NEW c \in Calls, AllocateSeq(c) PROVE SequenceInv'
    <2>1. /\ nextSeq # 0 /\ nextSeq' = nextSeq + 1
          /\ pc' = [pc EXCEPT ![c] = "insert"]
          /\ seq' = [seq EXCEPT ![c] = nextSeq]
          /\ UNCHANGED <<passport, entries>>
      BY <1>5 DEF AllocateSeq, Goto
    <2>2. \A d \in Calls : pc'[d] # "seqdoc"
      BY <1>0, <2>1
    <2>3. seq'[c] = nextSeq /\ \A d \in Calls : d # c => seq'[d] = seq[d] /\ pc'[d] = pc[d]
      BY <1>0, <2>1
    <2>4. \A d \in Calls : seq'[d] = 0 \/ seq'[d] < nextSeq'
      BY <1>0, <1>00, <2>1, <2>3
    <2>5. \A a, b \in Calls : a # b /\ seq'[a] # 0 => seq'[a] # seq'[b]
      <3>1. \A d \in Calls : seq[d] # nextSeq
        BY <1>0, <1>00, <2>1
      <3> QED
        BY <2>1, <2>3, <3>1
    <2>6. \A e \in entries : e.seq # nextSeq /\ e.seq < nextSeq'
      BY <1>0, <2>1
    <2>7. \A d \in Calls : pc'[d] = "insert" => seq'[d] \notin Seqs'
      BY <2>1, <2>3, <2>6
    <2> QED
      BY <2>1, <2>2, <2>4, <2>5, <2>6, <2>7
  <1>6. ASSUME NEW c \in Calls, InsertEntry(c) PROVE SequenceInv'
    <2>1. /\ pc[c] = "insert" /\ pc' = [pc EXCEPT ![c] = "advance"]
          /\ entries' = entries \cup {NewEntry(c, seq[c])}
          /\ UNCHANGED <<passport, nextSeq, seq>>
      BY <1>6 DEF InsertEntry, Goto, local
    <2>2. NewEntry(c, seq[c]).seq = seq[c] /\ seq[c] # 0 /\ seq[c] < nextSeq
      BY <2>1 DEF NewEntry, TypeInv
    <2>3. \A e \in entries : e.seq # seq[c]
      BY <2>1
    <2>4. \A e, f \in entries' : e.seq = f.seq => e = f
      BY <2>1, <2>2, <2>3
    <2>5. \A d \in Calls : pc'[d] \in {"insert", "seqdoc"} => d # c /\ pc[d] = pc'[d]
      BY <1>0, <2>1
    <2>6. \A d \in Calls : pc'[d] = "insert" => seq'[d] \notin Seqs'
      BY <2>1, <2>2, <2>5
    <2>7. \A e \in entries' : e.seq < nextSeq'
      BY <2>1, <2>2
    <2>8. \A a, b \in Calls : a # b /\ seq'[a] # 0 => seq'[a] # seq'[b]
      BY <2>1
    <2> QED
      BY <2>1, <2>4, <2>5, <2>6, <2>7, <2>8
  <1>7. CASE UNCHANGED vars
    BY <1>7 DEF vars, store, local
  <1>8. TypeInv
    OBVIOUS
  <1> HIDE DEF SequenceInv
  <1> QED
    BY <1>1, <1>2, <1>3, <1>4, <1>5, <1>6, <1>7, <1>8, SequenceSteps DEF Next

\* In every mode, also where the sequence is allocated, the entry inserted and
\* the counter created in separate steps that others overtake: no two entries
\* share a sequence, no two invocations hold the same one, and none is about
\* to insert one the ledger has.
THEOREM SequenceAlwaysUsedOnce == Spec => []SequenceUsedOnce
  <1>1. Init /\ TypeInv => SequenceInv
    <2> SUFFICES ASSUME Init, TypeInv PROVE SequenceInv
      OBVIOUS
    <2>1. passport.status = "absent" => nextSeq = 0
      <3>1. PICK s \in Starts :
               /\ passport = [status |-> s, revision |-> 0, head |-> NoHash, pending |-> FALSE]
               /\ nextSeq = IF s = "legacy" THEN 1 ELSE 0
        BY DEF Init
      <3> QED
        BY <3>1
    <2> QED
      BY <2>1 DEF Init, SequenceInv, SequenceUsedOnce
  <1>2. SequenceInv /\ TypeInv' /\ [Next]_vars => SequenceInv'
    BY SequenceKept
  <1>3. SequenceInv => SequenceUsedOnce
    BY DEF SequenceInv
  <1> QED
    BY <1>1, <1>2, <1>3, TypeInvariant, PTL DEF Spec

----------------------------------------------------------------------------
(* What idempotency keys guarantee, in every mode of append_entry. *)

\* The ledger holds entry n, with its receipt, for request fingerprint f of key k.
Holds(k, f, n) ==
    /\ n \in receipts
    /\ \E e \in entries : e.seq = n /\ e.req.key = k /\ Fingerprint(e.req) = f

\* The same after the step, for an entry named before it.
HoldsNext(k, f, n) ==
    /\ n \in receipts'
    /\ \E e \in entries' : e.seq = n /\ e.req.key = k /\ Fingerprint(e.req) = f

\* A COMMITTED row names an entry of the ledger, and so does every answer given.
RowsHold ==
    \A k \in Keys : idem[k].status = "COMMITTED" => Holds(k, idem[k].fp, idem[k].seq)

AnswersHold ==
    \A a \in acked :
        /\ Holds(a.req.key, Fingerprint(a.req), a.seq)
        /\ idem[a.req.key].status # "NONE"
        /\ idem[a.req.key].seq = a.seq

\* What an invocation of the plain path has written so far is there.
WritesHold ==
    \A c \in Calls :
        /\ pc[c] \in {"advance", "receipt", "record", "reread"} =>
              \E e \in entries : e.seq = seq[c] /\ e.req = req[c]
        /\ pc[c] \in {"record", "reread"} => seq[c] \in receipts
        /\ pc[c] = "reread" =>
              idem[req[c].key].status # "NONE" /\ idem[req[c].key].seq = seq[c]

KeyInv == TypeInv /\ RowsHold /\ AnswersHold /\ WritesHold

\* Entries and receipts are never taken back, by any step of any mode.
LEMMA DocumentsGrow ==
    ASSUME TypeInv, [Next]_vars
    PROVE  entries \subseteq entries' /\ receipts \subseteq receipts'
  <1> USE DEF store
  <1>1. ASSUME NEW c \in Calls, NEW q \in Requests, Submit(c, q)
        PROVE  UNCHANGED <<entries, receipts>>
    BY <1>1 DEF Submit
  <1>2. ASSUME NEW c \in Calls, EnsurePassport(c) PROVE UNCHANGED <<entries, receipts>>
    BY <1>2 DEF EnsurePassport, LoadActive, FindNoRevision, UpgradeLegacy, FindNone,
       ProvisionPassport, ReloadUnderLock, ProvisionDuplicate, InsertSequenceDoc
  <1>3. ASSUME NEW c \in Calls, CheckRequest(c) PROVE UNCHANGED <<entries, receipts>>
    BY <1>3 DEF CheckRequest, Refuse, ReturnOriginal, RefuseStale, BeginTransaction,
       TransactionUnavailable, BeginPlain
  <1>4. ASSUME NEW c \in Calls, CommitBody(c)
        PROVE  entries \subseteq entries' /\ receipts \subseteq receipts'
    BY <1>4 DEF CommitBody, CommitTxn, CommitUnacknowledged, Commit, RejectTxn,
       LoseTxn, ClaimRevision, LoseClaim, AllocateSeq, SequenceMissing, InsertEntry,
       AdvanceHead, InsertReceipt, RecordKey, KeyTaken, ReturnCommitted
  <1>5. ASSUME NEW c \in Calls, HandleError(c) PROVE UNCHANGED <<entries, receipts>>
    BY <1>5 DEF HandleError, Raise, RecordRace, MarkRaceFailed, RollbackClaim,
       RollbackRaises, MarkFailed, Crash
  <1>6. CASE UNCHANGED vars
    BY <1>6 DEF vars
  <1> QED
    BY <1>1, <1>2, <1>3, <1>4, <1>5, <1>6 DEF Next

LEMMA HoldsForever ==
    ASSUME TypeInv, [Next]_vars, NEW k, NEW f, NEW n, Holds(k, f, n)
    PROVE  HoldsNext(k, f, n)
  BY DocumentsGrow DEF Holds, HoldsNext

\* A row that exists keeps naming the entry it names; only its status and
\* fingerprint are overwritten, and never back to COMMITTED.
RowKept(k) ==
    idem[k].status # "NONE" =>
        /\ idem'[k].status # "NONE" /\ idem'[k].seq = idem[k].seq
        /\ idem'[k].status = "COMMITTED" => idem'[k] = idem[k]

LEMMA UpsertKeeps ==
    ASSUME TypeInv, NEW c \in Calls, UpsertFailed(c), NEW k \in Keys
    PROVE  RowKept(k) /\ (idem'[k].status = "COMMITTED" => idem'[k] = idem[k])
  <1>1. req[c] \in Requests /\ req[c].key \in Keys /\ idem \in [Keys -> Row]
    BY RequestAssumption DEF TypeInv, TypeOK
  <1>2. CASE k = req[c].key
    <2>1. idem'[k] = FailedRow(idem[k], req[c])
      BY <1>1, <1>2 DEF UpsertFailed
    <2> QED
      BY <2>1 DEF FailedRow, RowKept
  <1>3. CASE k # req[c].key
    BY <1>1, <1>3 DEF UpsertFailed, RowKept
  <1> QED
    BY <1>2, <1>3

\* The four ways a step can leave the idempotency rows.
LEMMA RowStep ==
    ASSUME [Next]_vars
    PROVE  \/ UNCHANGED idem
           \/ \E c \in Calls : UpsertFailed(c)
           \/ \E c \in Calls : Commit(c)
           \/ \E c \in Calls : RecordKey(c)
  <1> USE DEF store
  <1>1. ASSUME NEW c \in Calls, NEW q \in Requests, Submit(c, q) PROVE UNCHANGED idem
    BY <1>1 DEF Submit
  <1>2. ASSUME NEW c \in Calls, EnsurePassport(c) PROVE UNCHANGED idem
    BY <1>2 DEF EnsurePassport, LoadActive, FindNoRevision, UpgradeLegacy, FindNone,
       ProvisionPassport, ReloadUnderLock, ProvisionDuplicate, InsertSequenceDoc
  <1>3. ASSUME NEW c \in Calls, CheckRequest(c) PROVE UNCHANGED idem
    BY <1>3 DEF CheckRequest, Refuse, ReturnOriginal, RefuseStale, BeginTransaction,
       TransactionUnavailable, BeginPlain
  <1>4. ASSUME NEW c \in Calls, CommitBody(c)
        PROVE  UNCHANGED idem \/ Commit(c) \/ RecordKey(c)
    BY <1>4 DEF CommitBody, CommitTxn, CommitUnacknowledged, RejectTxn, LoseTxn,
       ClaimRevision, LoseClaim, AllocateSeq, SequenceMissing, InsertEntry,
       AdvanceHead, InsertReceipt, KeyTaken, ReturnCommitted
  <1>5. ASSUME NEW c \in Calls, HandleError(c) PROVE UNCHANGED idem \/ UpsertFailed(c)
    BY <1>5 DEF HandleError, Raise, RecordRace, MarkRaceFailed, RollbackClaim,
       RollbackRaises, MarkFailed, Crash
  <1>6. CASE UNCHANGED vars
    BY <1>6 DEF vars
  <1> QED
    BY <1>1, <1>2, <1>3, <1>4, <1>5, <1>6 DEF Next

\* What a transaction leaves for its key.
LEMMA CommitHolds ==
    ASSUME TypeInv, NEW c \in Calls, Commit(c)
    PROVE  /\ req[c].key \in Keys
           /\ idem[req[c].key].status = "NONE"
           /\ idem' = [idem EXCEPT ![req[c].key] = CommittedRow(req[c], nextSeq)]
           /\ HoldsNext(req[c].key, Fingerprint(req[c]), nextSeq)
  <1>1. req[c] \in Requests /\ req[c].key \in Keys
    BY RequestAssumption DEF TypeInv, TypeOK
  <1>2. NewEntry(c, nextSeq).seq = nextSeq /\ NewEntry(c, nextSeq).req = req[c]
    BY DEF NewEntry
  <1>3. NewEntry(c, nextSeq) \in entries' /\ nextSeq \in receipts'
    BY DEF Commit
  <1>4. \E e \in entries' : e.seq = nextSeq /\ e.req.key = req[c].key
                              /\ Fingerprint(e.req) = Fingerprint(req[c])
    BY <1>2, <1>3
  <1> QED
    BY <1>1, <1>3, <1>4 DEF Commit, Insertable, HoldsNext

\* Rows keep their entry, and COMMITTED rows name one.
LEMMA RowsPreserved ==
    ASSUME KeyInv, [Next]_vars
    PROVE  RowsHold' /\ \A k \in Keys : RowKept(k)
  <1>0. TypeInv /\ idem \in [Keys -> Row]
    BY DEF KeyInv, TypeInv, TypeOK
  <1> DEFINE Kept(k) == RowKept(k) /\ (idem'[k].status = "COMMITTED" => idem'[k] = idem[k])
             Sound(k) == RowKept(k) /\ (idem'[k].status = "COMMITTED" =>
                                            HoldsNext(k, idem'[k].fp, idem'[k].seq))
  <1>1. ASSUME NEW k \in Keys, Kept(k) PROVE Sound(k)
    <2>1. ASSUME idem'[k].status = "COMMITTED" PROVE HoldsNext(k, idem[k].fp, idem[k].seq)
      BY <1>0, <1>1, <2>1, HoldsForever DEF KeyInv, RowsHold
    <2> QED
      BY <1>1, <2>1
  <1>2. CASE UNCHANGED idem
    <2>1. \A k \in Keys : Kept(k)
      BY <1>2 DEF RowKept
    <2> QED
      BY <1>1, <2>1 DEF RowsHold, Holds, HoldsNext
  <1>3. ASSUME NEW c \in Calls, UpsertFailed(c)
        PROVE  \A k \in Keys : Sound(k)
    BY <1>0, <1>1, <1>3, UpsertKeeps
  <1>4. ASSUME NEW c \in Calls, Commit(c)
        PROVE  \A k \in Keys : Sound(k)
    <2> TAKE k \in Keys
    <2>1. CASE k = req[c].key
      <3>1. idem'[k] = CommittedRow(req[c], nextSeq) /\ idem[k].status = "NONE"
        BY <1>0, <1>4, <2>1, CommitHolds
      <3>2. HoldsNext(k, Fingerprint(req[c]), nextSeq)
        BY <1>0, <1>4, <2>1, CommitHolds
      <3> QED
        BY <3>1, <3>2 DEF RowKept, CommittedRow
    <2>2. CASE k # req[c].key
      BY <1>0, <1>1, <1>4, <2>2, CommitHolds DEF RowKept
    <2> QED
      BY <2>1, <2>2
  <1>5. ASSUME NEW c \in Calls, RecordKey(c)
        PROVE  \A k \in Keys : Sound(k)
    <2> TAKE k \in Keys
    <2>0. req[c] \in Requests /\ req[c].key \in Keys
      BY RequestAssumption, <1>0 DEF TypeInv, TypeOK
    <2>1. CASE k = req[c].key
      <3>1. idem'[k] = CommittedRow(req[c], seq[c]) /\ idem[k].status = "NONE"
        BY <1>0, <1>5, <2>1 DEF RecordKey
      <3>2. Holds(k, Fingerprint(req[c]), seq[c])
        BY <1>5, <2>1 DEF KeyInv, WritesHold, RecordKey, Goto, Holds
      <3>3. HoldsNext(k, Fingerprint(req[c]), seq[c])
        BY <1>0, <3>2, HoldsForever
      <3> QED
        BY <3>1, <3>3 DEF RowKept, CommittedRow
    <2>2. CASE k # req[c].key
      BY <1>0, <1>1, <1>5, <2>0, <2>2 DEF RowKept, RecordKey
    <2> QED
      BY <2>1, <2>2
  <1> QED
    BY <1>2, <1>3, <1>4, <1>5, RowStep DEF RowsHold, Holds, HoldsNext

\* The three ways a step can add to the answers given.
LEMMA AnswerStep ==
    ASSUME [Next]_vars
    PROVE  \/ UNCHANGED acked
           \/ \E c \in Calls : ReturnOriginal(c)
           \/ \E c \in Calls : CommitTxn(c)
           \/ \E c \in Calls : ReturnCommitted(c)
  <1>1. ASSUME NEW c \in Calls, NEW q \in Requests, Submit(c, q) PROVE UNCHANGED acked
    BY <1>1 DEF Submit
  <1>2. ASSUME NEW c \in Calls, EnsurePassport(c) PROVE UNCHANGED acked
    BY <1>2 DEF EnsurePassport, LoadActive, FindNoRevision, UpgradeLegacy, FindNone,
       ProvisionPassport, ReloadUnderLock, ProvisionDuplicate, InsertSequenceDoc
  <1>3. ASSUME NEW c \in Calls, CheckRequest(c) PROVE UNCHANGED acked \/ ReturnOriginal(c)
    BY <1>3 DEF CheckRequest, Refuse, RefuseStale, BeginTransaction,
       TransactionUnavailable, BeginPlain
  <1>4. ASSUME NEW c \in Calls, CommitBody(c)
        PROVE  UNCHANGED acked \/ CommitTxn(c) \/ ReturnCommitted(c)
    BY <1>4 DEF CommitBody, CommitUnacknowledged, RejectTxn, LoseTxn,
       ClaimRevision, LoseClaim, AllocateSeq, SequenceMissing, InsertEntry,
       AdvanceHead, InsertReceipt, RecordKey, KeyTaken
  <1>5. ASSUME NEW c \in Calls, HandleError(c) PROVE UNCHANGED acked
    BY <1>5 DEF HandleError, Raise, RecordRace, MarkRaceFailed, RollbackClaim,
       RollbackRaises, MarkFailed, Crash
  <1>6. CASE UNCHANGED vars
    BY <1>6 DEF vars
  <1> QED
    BY <1>1, <1>2, <1>3, <1>4, <1>5, <1>6 DEF Next

LEMMA AnswersPreserved ==
    ASSUME KeyInv, [Next]_vars
    PROVE  AnswersHold'
  <1>0. TypeInv /\ acked \subseteq [req : Requests, seq : Nat]
    BY DEF KeyInv, TypeInv, TypeOK
  <1>1. \A q \in Requests : q.key \in Keys
    BY RequestAssumption
  <1> DEFINE Good(q, n) ==
               /\ HoldsNext(q.key, Fingerprint(q), n)
               /\ idem'[q.key].status # "NONE"
               /\ idem'[q.key].seq = n
  <1>2. \A a \in acked : Good(a.req, a.seq)
    <2> TAKE a \in acked
    <2>1. a.req.key \in Keys
      BY <1>0, <1>1
    <2>2. /\ Holds(a.req.key, Fingerprint(a.req), a.seq)
          /\ idem[a.req.key].status # "NONE"
          /\ idem[a.req.key].seq = a.seq
      BY DEF KeyInv, AnswersHold
    <2>3. HoldsNext(a.req.key, Fingerprint(a.req), a.seq)
      BY <1>0, <2>2, HoldsForever
    <2>4. RowKept(a.req.key)
      BY <2>1, RowsPreserved
    <2> QED
      BY <2>2, <2>3, <2>4 DEF RowKept
  <1>3. ASSUME NEW c \in Calls, NEW n, Acknowledge(c, n), Good(req[c], n)
        PROVE  AnswersHold'
    <2>1. \A a \in acked' : a \in acked \/ (a.req = req[c] /\ a.seq = n)
      BY <1>3 DEF Acknowledge
    <2> QED
      BY <1>2, <1>3, <2>1 DEF AnswersHold, Holds, HoldsNext
  <1>4. CASE UNCHANGED acked
    BY <1>2, <1>4 DEF AnswersHold, Holds, HoldsNext
  <1>5. ASSUME NEW c \in Calls, ReturnOriginal(c) PROVE AnswersHold'
    <2> DEFINE k == req[c].key
    <2>1. k \in Keys
      BY <1>0, <1>1 DEF TypeInv, TypeOK
    <2>2. idem[k].status = "COMMITTED" /\ idem[k].fp = Fingerprint(req[c]) /\ UNCHANGED idem
      BY <1>5 DEF ReturnOriginal, AlreadyCommitted, store
    <2>3. Holds(k, Fingerprint(req[c]), idem[k].seq)
      BY <2>1, <2>2 DEF KeyInv, RowsHold
    <2>4. HoldsNext(k, Fingerprint(req[c]), idem[k].seq)
      BY <1>0, <2>3, HoldsForever
    <2>5. Good(req[c], idem[k].seq)
      BY <2>2, <2>4
    <2>6. Acknowledge(c, idem[k].seq)
      BY <1>5 DEF ReturnOriginal
    <2> HIDE DEF k, Good
    <2> QED
      BY <1>3, <2>5, <2>6
  <1>6. ASSUME NEW c \in Calls, CommitTxn(c) PROVE AnswersHold'
    <2>1. Commit(c) /\ Acknowledge(c, nextSeq)
      BY <1>6 DEF CommitTxn
    <2>2. idem'[req[c].key] = CommittedRow(req[c], nextSeq)
      BY <1>0, <2>1, CommitHolds DEF TypeInv, TypeOK
    <2>3. Good(req[c], nextSeq)
      BY <1>0, <2>1, <2>2, CommitHolds DEF CommittedRow
    <2> HIDE DEF Good
    <2> QED
      BY <1>3, <2>1, <2>3
  <1>7. ASSUME NEW c \in Calls, ReturnCommitted(c) PROVE AnswersHold'
    <2>1. pc[c] = "reread" /\ UNCHANGED idem /\ Acknowledge(c, seq[c])
      BY <1>7 DEF ReturnCommitted, store
    <2>2. Holds(req[c].key, Fingerprint(req[c]), seq[c])
      BY <2>1 DEF KeyInv, WritesHold, Holds
    <2>3. HoldsNext(req[c].key, Fingerprint(req[c]), seq[c])
      BY <1>0, <2>2, HoldsForever
    <2>4. Good(req[c], seq[c])
      BY <2>1, <2>3 DEF KeyInv, WritesHold
    <2> HIDE DEF Good
    <2> QED
      BY <1>3, <2>1, <2>4
  <1> QED
    BY <1>4, <1>5, <1>6, <1>7, AnswerStep

\* How an invocation gets past the insertion of its entry, or stays there.
LEMMA WriterStep ==
    ASSUME TypeInv, [Next]_vars, NEW d \in Calls,
           pc'[d] \in {"advance", "receipt", "record", "reread"}
    PROVE  \/ pc'[d] = pc[d] /\ seq'[d] = seq[d] /\ req'[d] = req[d]
           \/ InsertEntry(d) \/ AdvanceHead(d) \/ InsertReceipt(d) \/ RecordKey(d)
  <1> DEFINE Stays == pc'[d] = pc[d] /\ seq'[d] = seq[d] /\ req'[d] = req[d]
  <1> USE DEF TypeInv, TypeOK, Goto, Leave, local
  <1>1. ASSUME NEW c \in Calls, NEW q \in Requests, Submit(c, q) PROVE Stays
    BY <1>1 DEF Submit
  <1>2. ASSUME NEW c \in Calls, EnsurePassport(c) PROVE Stays
    BY <1>2 DEF EnsurePassport, LoadActive, FindNoRevision, UpgradeLegacy, FindNone,
       ProvisionPassport, ReloadUnderLock, ProvisionDuplicate, InsertSequenceDoc
  <1>3. ASSUME NEW c \in Calls, CheckRequest(c) PROVE Stays
    BY <1>3 DEF CheckRequest, Refuse, ReturnOriginal, RefuseStale, BeginTransaction,
       TransactionUnavailable, BeginPlain
  <1>4. ASSUME NEW c \in Calls, CommitBody(c)
        PROVE  Stays \/ InsertEntry(d) \/ AdvanceHead(d) \/ InsertReceipt(d) \/ RecordKey(d)
    <2>1. CASE c = d
      BY <1>4, <2>1 DEF CommitBody, CommitTxn, CommitUnacknowledged, RejectTxn,
         LoseTxn, ClaimRevision, LoseClaim, AllocateSeq, SequenceMissing, KeyTaken,
         ReturnCommitted
    <2>2. CASE c # d
      BY <1>4, <2>2 DEF CommitBody, CommitTxn, CommitUnacknowledged, RejectTxn,
         LoseTxn, ClaimRevision, LoseClaim, AllocateSeq, SequenceMissing, InsertEntry,
         AdvanceHead, InsertReceipt, RecordKey, KeyTaken, ReturnCommitted
    <2> QED
      BY <2>1, <2>2
  <1>5. ASSUME NEW c \in Calls, HandleError(c) PROVE Stays
    BY <1>5 DEF HandleError, Raise, RecordRace, MarkRaceFailed, RollbackClaim,
       RollbackRaises, MarkFailed, Crash
  <1>6. CASE UNCHANGED vars
    BY <1>6 DEF vars
  <1> QED
    BY <1>1, <1>2, <1>3, <1>4, <1>5, <1>6 DEF Next

LEMMA WritesPreserved ==
    ASSUME KeyInv, [Next]_vars
    PROVE  WritesHold'
  <1>0. /\ TypeInv
        /\ \A c \in Calls : req[c].key \in Keys
        /\ pc \in [Calls -> Phases] /\ idem \in [Keys -> Row]
    BY RequestAssumption DEF KeyInv, TypeInv, TypeOK
  <1> SUFFICES ASSUME NEW d \in Calls,
                      pc'[d] \in {"advance", "receipt", "record", "reread"}
               PROVE  /\ \E e \in entries' : e.seq = seq'[d] /\ e.req = req'[d]
                      /\ pc'[d] \in {"record", "reread"} => seq'[d] \in receipts'
                      /\ pc'[d] = "reread" =>
                            /\ idem'[req'[d].key].status # "NONE"
                            /\ idem'[req'[d].key].seq = seq'[d]
    BY DEF WritesHold
  <1>1. entries \subseteq entries' /\ receipts \subseteq receipts'
    BY <1>0, DocumentsGrow
  <1>2. CASE pc'[d] = pc[d] /\ seq'[d] = seq[d] /\ req'[d] = req[d]
    BY <1>0, <1>1, <1>2, RowsPreserved DEF KeyInv, WritesHold, RowKept
  <1>3. CASE InsertEntry(d)
    <2>1. NewEntry(d, seq[d]) \in entries' /\ UNCHANGED <<seq, req>> /\ pc'[d] = "advance"
      BY <1>0, <1>3 DEF InsertEntry, Goto, local
    <2>2. NewEntry(d, seq[d]).seq = seq[d] /\ NewEntry(d, seq[d]).req = req[d]
      BY DEF NewEntry
    <2> QED
      BY <2>1, <2>2
  <1>4. CASE AdvanceHead(d)
    BY <1>0, <1>1, <1>4 DEF KeyInv, WritesHold, AdvanceHead, Goto, local
  <1>5. CASE InsertReceipt(d)
    BY <1>0, <1>1, <1>5 DEF KeyInv, WritesHold, InsertReceipt, Goto, local
  <1>6. CASE RecordKey(d)
    <2>1. pc[d] = "record" /\ UNCHANGED <<seq, req>>
      BY <1>6 DEF RecordKey, Goto, local
    <2>2. idem'[req[d].key] = CommittedRow(req[d], seq[d])
      BY <1>0, <1>6 DEF RecordKey
    <2> QED
      BY <1>1, <2>1, <2>2 DEF KeyInv, WritesHold, CommittedRow
  <1> QED
    BY <1>0, <1>2, <1>3, <1>4, <1>5, <1>6, WriterStep

\* The invariant behind idempotency.
LEMMA KeyInvariant == Spec => []KeyInv
  <1>1. Init => RowsHold /\ AnswersHold /\ WritesHold
    BY DEF Init, RowsHold, AnswersHold, WritesHold, NoRow
  <1>2. KeyInv /\ [Next]_vars => RowsHold' /\ AnswersHold' /\ WritesHold'
    BY RowsPreserved, AnswersPreserved, WritesPreserved
  <1> QED
    BY <1>1, <1>2, TypeInvariant, PTL DEF Spec, KeyInv

\* Invariants 9 and 10 of the authority document, in every mode: whatever
\* overlaps, raises or dies, an append is reported as committed only when its
\* entry and receipt are in the ledger, and they stay there.
THEOREM AcknowledgedAlwaysInLedger == Spec => []AcknowledgedInLedger
  <1>1. KeyInv => AcknowledgedInLedger
    BY DEF KeyInv, AnswersHold, AcknowledgedInLedger, Holds
  <1> QED
    BY <1>1, KeyInvariant, PTL

\* Every answer given under a key names the same entry, in every mode.
THEOREM OneResultForEachKey == Spec => []OneResultPerKey
  <1>1. KeyInv => OneResultPerKey
    BY DEF KeyInv, AnswersHold, OneResultPerKey
  <1> QED
    BY <1>1, KeyInvariant, PTL

----------------------------------------------------------------------------
(* Production mode implements LedgerChain: every run of the store, seen      *)
(* through LogOf, is a run of the append-only log.                           *)

\* A request in its transaction was not stale against its snapshot, and every
\* entry of the ledger has its key recorded.
RefInv ==
    /\ ProductionInv
    /\ \A c \in Calls : pc[c] = "txn" => ~Stale(req[c], rev[c], head[c])
    /\ \A e \in entries : idem[e.req.key].status # "NONE"
    /\ OneEntryPerKey

\* Only BeginTransaction enters a transaction, with a request that is current.
LEMMA TxnStaysCurrent ==
    ASSUME RefInv, [Next]_vars, NEW d \in Calls, pc'[d] = "txn"
    PROVE  ~Stale(req'[d], rev'[d], head'[d])
  <1> USE DEF RefInv, ProductionInv, TypeInv, TypeOK, Goto, Leave, local
  <1>1. ASSUME NEW c \in Calls, NEW q \in Requests, Submit(c, q)
        PROVE  ~Stale(req'[d], rev'[d], head'[d])
    BY <1>1 DEF Submit
  <1>2. ASSUME NEW c \in Calls, EnsurePassport(c)
        PROVE  ~Stale(req'[d], rev'[d], head'[d])
    BY <1>2 DEF EnsurePassport, LoadActive, FindNoRevision, UpgradeLegacy, FindNone,
       ProvisionPassport, ReloadUnderLock, ProvisionDuplicate, InsertSequenceDoc, Snapshot
  <1>3. ASSUME NEW c \in Calls, CheckRequest(c)
        PROVE  ~Stale(req'[d], rev'[d], head'[d])
    BY <1>3 DEF CheckRequest, Refuse, ReturnOriginal, RefuseStale, BeginTransaction,
       TransactionUnavailable, BeginPlain, Current
  <1>4. ASSUME NEW c \in Calls, CommitBody(c)
        PROVE  ~Stale(req'[d], rev'[d], head'[d])
    BY <1>4 DEF CommitBody, CommitTxn, CommitUnacknowledged, RejectTxn, LoseTxn,
       ClaimRevision, LoseClaim, AllocateSeq, SequenceMissing, InsertEntry,
       AdvanceHead, InsertReceipt, RecordKey, KeyTaken, ReturnCommitted
  <1>5. ASSUME NEW c \in Calls, HandleError(c)
        PROVE  ~Stale(req'[d], rev'[d], head'[d])
    BY <1>5 DEF HandleError, Raise, RecordRace, MarkRaceFailed, RollbackClaim,
       RollbackRaises, MarkFailed, Crash
  <1>6. CASE UNCHANGED vars
    BY <1>6 DEF vars
  <1> QED
    BY <1>1, <1>2, <1>3, <1>4, <1>5, <1>6 DEF Next

\* A transaction appends under a key no entry has yet.
LEMMA KeysStayUsed ==
    ASSUME Production, KeyInv, RefInv, [Next]_vars
    PROVE  /\ \A e \in entries' : idem'[e.req.key].status # "NONE"
           /\ OneEntryPerKey'
  <1>0. /\ TypeInv /\ ProductionInv
        /\ \A e \in entries : e.req.key \in Keys
        /\ \A c \in Calls : req[c].key \in Keys
    BY RequestAssumption DEF KeyInv, RefInv, TypeInv, TypeOK, Entry
  <1>1. \A e \in entries : idem'[e.req.key].status # "NONE"
    BY <1>0, RowsPreserved DEF RefInv, RowKept
  <1>2. CASE entries' = entries
    BY <1>1, <1>2 DEF RefInv, OneEntryPerKey
  <1>3. ASSUME NEW c \in Calls, Commit(c)
        PROVE  /\ \A e \in entries' : idem'[e.req.key].status # "NONE"
               /\ OneEntryPerKey'
    <2> DEFINE new == NewEntry(c, nextSeq)
    <2>1. entries' = entries \cup {new}
      BY <1>3 DEF Commit
    <2>2. new.req = req[c]
      BY DEF NewEntry
    <2>3. idem[req[c].key].status = "NONE"
      BY <1>0, <1>3, CommitHolds
    <2>4. idem'[req[c].key].status # "NONE"
      <3>1. /\ idem' = [idem EXCEPT ![req[c].key] = CommittedRow(req[c], nextSeq)]
            /\ req[c].key \in DOMAIN idem
        BY <1>0, <1>3, CommitHolds DEF TypeInv, TypeOK
      <3> QED
        BY <3>1 DEF CommittedRow
    <2>5. \A e \in entries : e.req.key # req[c].key
      BY <2>3 DEF RefInv
    <2> HIDE DEF new
    <2> QED
      BY <1>1, <2>1, <2>2, <2>4, <2>5 DEF RefInv, OneEntryPerKey
  <1> QED
    BY <1>0, <1>2, <1>3, ProductionStep DEF ProvisionPassport, InsertSequenceDoc

LEMMA RefInvariant ==
    ASSUME Production PROVE Spec => []RefInv
  <1> DEFINE Current1 == \A c \in Calls : pc[c] = "txn" => ~Stale(req[c], rev[c], head[c])
             Used == \A e \in entries : idem[e.req.key].status # "NONE"
  <1>1. Init => Current1 /\ Used /\ OneEntryPerKey
    BY DEF Init, OneEntryPerKey
  <1>2. RefInv /\ KeyInv /\ [Next]_vars => Current1' /\ Used' /\ OneEntryPerKey'
    BY TxnStaysCurrent, KeysStayUsed DEF Stale
  <1>3. RefInv <=> ProductionInv /\ Current1 /\ Used /\ OneEntryPerKey
    BY DEF RefInv
  <1> HIDE DEF Current1, Used
  <1> QED
    BY <1>1, <1>2, <1>3, ProductionInvariant, KeyInvariant, PTL DEF Spec

\* Invariant 8 of the authority document in production mode: however often and
\* however concurrently a request is delivered, its key appends one entry.
THEOREM OneEntryForEachKey ==
    ASSUME Production PROVE Spec => []OneEntryPerKey
  <1>1. RefInv => OneEntryPerKey
    BY DEF RefInv
  <1> QED
    BY <1>1, RefInvariant, PTL

----------------------------------------------------------------------------
\* The log is a sequence of requests as long as the revision, and it lists the
\* requests of the entries in their order.
LogListsEntries ==
    /\ LogOf \in Seq(Requests)
    /\ Len(LogOf) = passport.revision
    /\ \A e \in entries : e.seq \in DOMAIN LogOf /\ LogOf[e.seq] = e.req
    /\ \A n \in DOMAIN LogOf : \E e \in entries : e.seq = n /\ LogOf[n] = e.req

LEMMA LogIsSequence == ProductionInv => LogListsEntries
  <1> SUFFICES ASSUME ProductionInv PROVE LogListsEntries
    OBVIOUS
  <1>0. /\ passport.revision \in Nat
        /\ \A e \in entries : e.seq \in 1 .. passport.revision /\ e.req \in Requests
    BY DEF ProductionInv, TypeInv, TypeOK, PassportDoc, Entry, EntriesLinked
  <1>1. ASSUME NEW n \in 1 .. passport.revision
        PROVE  \E e \in entries : e.seq = n /\ LogOf[n] = e.req
    <2>1. PICK e \in entries : e.seq = n
      BY DEF ProductionInv, EntriesLinked
    <2>2. (CHOOSE f \in entries : f.seq = n) = e
      BY <2>1 DEF ProductionInv, EntriesLinked
    <2> QED
      BY <2>1, <2>2 DEF LogOf
  <1>2. \A n \in 1 .. passport.revision : LogOf[n] \in Requests
    BY <1>0, <1>1
  <1>3. LogOf \in [1 .. passport.revision -> Requests]
    BY <1>2 DEF LogOf
  <1>4. LogOf \in Seq(Requests) /\ Len(LogOf) = passport.revision
    BY <1>0, <1>3
  <1>5. \A e \in entries : LogOf[e.seq] = e.req
    BY <1>0, <1>1 DEF ProductionInv, EntriesLinked
  <1> QED
    BY <1>0, <1>1, <1>3, <1>4, <1>5 DEF LogListsEntries

LEMMA LogStaysSequence == ProductionInv' => LogListsEntries'
  BY LogIsSequence, PTL

\* Each step of the store appends one request to the log that names its end and
\* whose key is new, or leaves the log alone.
LEMMA StepRefines ==
    ASSUME Production, RefInv, RefInv', [Next]_vars
    PROVE  [Chain!ChainNext]_LogOf
  <1>0. ProductionInv /\ ProductionInv'
    BY DEF RefInv
  <1>1. CASE UNCHANGED <<passport, nextSeq, entries>>
    BY <1>1 DEF LogOf
  <1>2. ASSUME NEW c \in Calls, ProvisionPassport(c) PROVE UNCHANGED LogOf
    <2>1. passport'.revision = passport.revision /\ entries' = entries
      BY <1>0, <1>2 DEF ProvisionPassport, ProductionInv, TypeInv, TypeOK, PassportDoc
    <2> QED
      BY <2>1 DEF LogOf
  <1>3. ASSUME NEW c \in Calls, InsertSequenceDoc(c) PROVE UNCHANGED LogOf
    BY <1>3 DEF InsertSequenceDoc, LogOf
  <1>4. ASSUME NEW c \in Calls, Commit(c) PROVE Chain!ChainNext
    <2> DEFINE n == passport.revision
               new == [seq |-> n + 1, prior |-> (n + 1) - 1, revision |-> n + 1, req |-> req[c]]
    <2>1. n \in Nat /\ req[c] \in Requests
      BY <1>0 DEF ProductionInv, TypeInv, TypeOK, PassportDoc
    <2>2. entries' = entries \cup {new} /\ passport'.revision = n + 1
      BY <1>0, <1>4, CommitExtends
    <2>3. /\ LogOf \in Seq(Requests) /\ Len(LogOf) = n
          /\ \A e \in entries : e.seq \in DOMAIN LogOf /\ LogOf[e.seq] = e.req
          /\ \A m \in DOMAIN LogOf : \E e \in entries : e.seq = m /\ LogOf[m] = e.req
      BY <1>0, LogIsSequence DEF LogListsEntries
    <2>4. /\ LogOf' \in Seq(Requests) /\ Len(LogOf') = n + 1
          /\ \A e \in entries' : LogOf'[e.seq] = e.req
      BY <1>0, <2>2, LogStaysSequence DEF LogListsEntries
    <2>5. Chain!Names(req[c], n)
      <3>1. pc[c] = "txn" /\ CasMatches(c)
        BY <1>4 DEF Commit
      <3>2. rev[c] = n /\ head[c] = n
        BY <1>0, <3>1 DEF ProductionInv, ControlInv, CasMatches
      <3>3. ~Stale(req[c], n, n)
        BY <3>1, <3>2 DEF RefInv
      <3> QED
        BY <3>3 DEF Stale, Chain!Names
    <2>6. Chain!Unused(req[c].key)
      <3>1. idem[req[c].key].status = "NONE"
        BY <1>4 DEF Commit, Insertable
      <3>2. \A m \in DOMAIN LogOf : \E e \in entries : LogOf[m] = e.req
        BY <2>3
      <3> QED
        BY <3>1, <3>2 DEF RefInv, Chain!Unused
    <2>7. LogOf' = Append(LogOf, req[c])
      <3>1. LogOf'[n + 1] = req[c]
        <4>1. new \in entries' /\ new.seq = n + 1 /\ new.req = req[c]
          BY <2>2
        <4> QED
          BY <2>4, <4>1
      <3>2. ASSUME NEW m \in 1 .. n PROVE LogOf'[m] = LogOf[m]
        <4>1. PICK e \in entries : e.seq = m /\ LogOf[m] = e.req
          BY <2>1, <2>3
        <4> QED
          BY <2>2, <2>4, <4>1
      <3> HIDE DEF new
      <3> QED
        BY <2>1, <2>3, <2>4, <3>1, <3>2, AppendProperties, SeqEqual
    <2>8. Len(LogOf) = n
      BY <2>3
    <2> HIDE DEF n
    <2> QED
      BY <2>1, <2>5, <2>6, <2>7, <2>8 DEF Chain!ChainNext, Chain!Extend
  <1> QED
    BY <1>0, <1>1, <1>2, <1>3, <1>4, ProductionStep

\* Production mode implements the append-only log (invariants 4, 7, 8 and 10 of
\* the authority document): whatever overlaps, aborts or dies, the ledger only
\* grows at its end, by a request that named that end and whose key is new.
THEOREM ImplementsLedgerChain ==
    ASSUME Production PROVE Spec => ImplementsChain
  <1>1. Init => Chain!ChainInit
    <2> SUFFICES ASSUME Init PROVE LogOf = <<>>
      BY DEF Chain!ChainInit
    <2>1. passport.revision = 0
      BY DEF Init
    <2> QED
      BY <2>1 DEF LogOf
  <1>2. RefInv /\ RefInv' /\ [Next]_vars => [Chain!ChainNext]_LogOf
    BY StepRefines
  <1> QED
    BY <1>1, <1>2, RefInvariant, PTL DEF Spec, ImplementsChain, Chain!ChainSpec
==============================================================================
