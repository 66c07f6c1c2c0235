# A verification project for Stratex-2

TLA+ models of the backend of Stratex-2 (`backend/nextgen` first, then
`backend/server.py` and `backend/routes`), the TLC configurations that check
them on small instances, and TLAPS proofs of what matters most. All paths below
are relative to `src/` unless they begin with `tla/`; a path that names a file
alone is under `backend/nextgen`.

## 1. The system

Stratex-2 is a roof-inspection platform. Its core is the *Property Passport*: a
hash-chained ledger per property, to which approved findings and intelligence
are published and from which reports, habitat projections and estimates are
derived. One FastAPI process per host serves requests with asyncio; any number
of hosts share one MongoDB. A handler is interleaved with every other handler
at each `await` on a collection, and nothing is held across awaits except where
a multi-document transaction or a unique index says so. That is where the
project looks. Beside this backend (NextGen) the repository holds an older one, the
contractor platform of `server.py` and `routes/`, with documents and a passport of
its own.

| Component | Source | State | Operations | Hard part | Module |
|---|---|---|---|---|---|
| Passport ledger | `passport_service.py` | passport (revision, head, claim flag), sequence counter, entries, receipts, idempotency rows | `append_entry`, `_ensure_passport`, `get_passport_head` | optimistic concurrency over five collections, with and without transactions; retries; crashes; lost answers | `PassportLedger` |
| Sealing and verification | `passport_seal.py`, `passport_verify.py` | versioned keys, seals | seal, verify a seal, `verify_passport_chain` | precedence of issues, limits, rotated or lost keys, damaged stores | `PassportSeal`, `PassportLedger` |
| Index readiness | `passport_indexes.py` | indexes; the memory of each server | initialise, ask, publish | readiness is remembered by one process and is about all of them | `IndexReadiness` |
| Governed publication, approval policy | `governed_publish_service.py`, `approval_policy.py` | idempotency rows, conflicts | `governed_publish`, `load_expected_state`, `evaluate_approval_policy` | separation of duties on a snapshot; replies to repeated keys | `GovernedPublication` |
| Findings review | `routes/findings.py` | finding status, review history, passport reference | create, edit, submit, approve, reject, resolve, supersede | read, check, then unconditional write; crash between ledger and finding | `FindingReview` |
| Intelligence review | `routes/intelligence.py` | object state, reviews | create, review | a failed attempt overwriting a committed one | `IntelligenceReview` |
| Conflict queue | `passport_conflicts.py`, `routes/passports.py` | conflict records | open, review, rebase, reject | terminal records overwritten, two rebases of one conflict | `IntelligenceReview` |
| Outbox | `outbox.py`, `outbox_worker.py` | outbox rows with leases, inbox receipts, dead letters | emit, claim, deliver, retry, dead-letter, replay | expired leases, crashes, stale workers, operators | `OutboxDelivery` |
| Evidence intake | `routes/evidence.py`, `routes/missions.py`, `storage.py` | missions, items, files, packages | upload, relate, delete, finalize, advance | files shared by content; packages made while an item is deleted | `EvidenceIntake` |
| Report publication | `report_publication.py` | packages, delivery requests, timeline | create, transition, request delivery, announce | transitions that race; one idempotency key per package | `ReportPublication` |
| Projections and their repair | `report_publication.py`, `projection_reconciliation.py` | markers, source states | project, reconcile, repair | head and entries read at two moments | `ProjectionMarkers` |
| ATC lane | `mission_state_machine.py`, `atc/` | orchestrations, pairs | transition, validate a pair, gate a package, check a candidate | a failed validation that leaves half of its writes | `AtcMission` |
| Habitat | `habitat/`, `backend/nextgen/routes/habitat.py`, `awe.py` | grant, rate limit in memory | view, open a link, score | one bad document refuses the view; words of other layers | `HabitatView`, `HabitatLink` |
| Estimator | `estimator/` | estimate ledgers | parse lengths, measure, expand, convert, replay | rounding, units, rules that change between ledger and replay | `Estimate`, `Takeoff` |
| Dataset lab | `dataset_lab/` | files | acquire, license gate, inventory, candidate, reconstruct, run | processes without locks that die | `DatasetLab` |
| Contractor platform | `backend/server.py`, `backend/routes/`, `backend/geofence_service.py` | jobs, meters, legacy passports, tokens, zones, strikes, payments | see section 2 | every handler writes back what it read some awaits ago | `SurveyJob`, `WeatherGates`, `LegacyPassport`, `FieldFlight`, `Billing` |
| Hardware gateway, frontend | `hardware-gateway/`, `frontend/` | none of their own | forward, present | none | none |

How they interact. Findings and intelligence review call `governed_publish`,
which asks the index readiness of its process and calls `append_entry`; then they
update their own document and emit an outbox event. A refused append opens a
conflict, which an operator may rebase into a new append. Workers deliver outbox
events. Projections, verification and reconciliation read the passport that the
others append to; habitat reads what reviews approved and what report packages
were released. In the contractor platform the pilot's calls, the homeowner's texts,
the background sweep and the contractor's requests meet in the job; the storm
watcher, claims and co-signatures meet in the legacy ledger. Nothing but the
database connects two hosts, and nothing but files two calls of the dataset lab.

What makes each correct is said by the properties of its run (section 3); the
hazards they are for are listed with their lines in `tla/PROJECT.json`.

## 2. Modules

| Module | What it is |
|---|---|
| `LedgerChain` | what the ledger promises: an append-only log with expected-state tokens and single-use keys |
| `PassportLedger` | `append_entry` step by step, any number of overlapping invocations |
| `OutboxDelivery` | the outbox: workers, leases, operators, time |
| `FindingReview` | the review of findings, publishing to an instance of `LedgerChain` |
| `GovernedPublication` | publication as its callers see it: log, idempotency rows, conflicts |
| `IntelligenceReview` | extends it by the review of intelligence objects and of conflicts |
| `EvidenceIntake` | missions, uploads, deletion, packages |
| `ReportPublication`, `ProjectionMarkers` | report packages; what is derived from a passport and compared with it |
| `AtcMission` | orchestration of missions and pairs, quality gate, candidate check |
| `HabitatView`, `HabitatLink` | what a homeowner is shown, and the link that shows it |
| `Estimate`, `Takeoff` | from inputs to packages, ledger and replay; from lengths to quantities (extends `Estimate`) |
| `PassportSeal`, `IndexReadiness` | seals and verification; indexes and who believes in them |
| `DatasetLab` | the laboratory's processes and files |
| `SurveyJob`, `WeatherGates` | the job of the contractor platform; its three sets of weather thresholds |
| `LegacyPassport`, `FieldFlight`, `Billing` | the older ledger and its writers; the pilot's calls; the activation payment |
| `MCPassportLedger`, `MCOutboxDelivery`, `MCFindingReview`, `MCIntelligenceReview` | instances for TLC |
| `MCPublications`, `MCPlatform` | instances that run several parts side by side |
| `PassportLedgerProofs` | types, chain, sequences and keys of the ledger; refinement of `LedgerChain` |
| `FindingReviewProofs`, `IntelligenceReviewProofs` | proofs about the reviews |
| `PublicationsProofs` | about intake, report packages, markers, ATC, habitat's view and link |
| `ContractorProofs` | about survey jobs, the older ledger, field calls, billing, weather |
| `EstimateProofs` | about `Estimate` and `Takeoff` |
| `PlatformProofs` | about the outbox, the dataset lab, seals and index readiness |
| `ProofBasics` | facts about numbers, sequences and sums the others cite |

### PassportLedger

An element of `Calls` is an invocation of `append_entry`; its `pc` says which
`await` comes next and `req`, `rev`, `head`, `seq` are the Python locals
(arguments, `actual_revision`, `actual_head`, the allocated sequence). The first
five variables (`passport`, `nextSeq`, `entries`, `receipts`, `idem`) and
`conflicts` are the Mongo collections; `acked` is a history variable: what
callers were told. Each action is one await with the code around it:

- provisioning: `LoadActive`, `FindNone`, `ProvisionPassport`,
  `ReloadUnderLock` / `ProvisionDuplicate` (the lock is per process, so a second
  writer either waits in this process or is refused by the unique index),
  `InsertSequenceDoc`, and `FindNoRevision` / `UpgradeLegacy` for documents
  written before revisions;
- checks, in the order of the code: index readiness, tokens, idempotency row,
  staleness (`Refuse`, `ReturnOriginal`, `RefuseStale`);
- the commit: in a transaction one step (`CommitTxn`, `CommitUnacknowledged` when
  the answer is lost, `RejectTxn`, `LoseTxn`); without one, seven
  (`ClaimRevision` ... `ReturnCommitted`);
- the two exception handlers, and `Crash` anywhere.

Abstractions. One passport of one property: every filter of the code names both.
The content hash of an entry is represented by its `seq`, because the hashed body
contains it and a passport's sequences are unique; `None` and `""` are the hash
0. A fingerprint is the request without its key, as `_request_fingerprint`
has it. All modelled requests are governed and carry a key, as every caller in the
code does (`require_expected_state=True`, key from the source id). The unique
indexes are in force: a local host on which their creation failed is excluded by
`ModeAssumption`. Audit events are left out. `AttributeError` at `start_transaction` happens
with test doubles only.

### OutboxDelivery

`row` is `outbox_events`; the clock is abstracted to the two comparisons
the code makes (`available_after <= now`, `lease_until < now`) and to two actions that
let time pass. A worker's state is `process_one`'s locals, the claimed row's
`attempts` among them, because the code compares that copy and not the current
one. An operator's is `replay_dead_lettered_event`'s. `letters` counts the dead
letters of an event, `inbox` its receipts: both can exceed one, as in the code.

### FindingReview

A session is one HTTP request to a handler of `routes/findings.py`. Each handler
reads the finding and checks it (`Begin...`), keeps parts of what it read, and
later writes by `canonical_id` alone (`Save...`); an approval reads the head, publishes,
updates the finding, emits the event and, for a successor, publishes the
supersession and marks the prior finding, each a step of its own. The ledger is
`LedgerChain`, instantiated on this module's `log`: `ImplementsLedgerChain`
proves that `append_entry` in production mode behaves like it. A publication
may also be refused at any time (`RefusePublication`), which stands for every
error of `append_entry`; a commit whose answer is lost is `Publish` followed by
`Crash`. An approval is never answered with an earlier entry, since its payload
holds its own `approved_at` and signature. A supersession has neither: two
finalizations by one approver on one head are the same request (`Attempt`), and the
second is answered with the entry of the first and goes on (`RepeatSupersession`); on
another head, or by another approver, it is refused as a mismatch.
What a finding says is represented by who wrote it last, and its
`review_history` by the users its create and edit entries name (`editors`),
because that is what `_author_ids` looks for. `announced` is the set of
findings with a `FINDING_APPROVED` row in the outbox, which has a key per finding.
The property timeline and audit events are left out.

### GovernedPublication and IntelligenceReview

`GovernedPublication` replaces `append_entry` by its effect on `log`, `idem` and
`conflict` in one step, and adds what `LedgerChain` leaves out: a row that answers a
repeated key with the earlier entry or refuses it as a mismatch, and the conflict
record of a stale attempt, one for each fingerprint of a refusal. A session of
`IntelligenceReview` is a request to `review_intelligence` or to a handler of
conflicts. It reads, publishes, and writes the object or the conflict by id alone,
and may die between any two. The content of an attempt is its number, because the
payload holds the time and signature of the attempt; a finding that is published
beside moves the head. Users are creators, reviewers and operators by role; licences
and evidence are assumed to be in order.

### EvidenceIntake, ReportPublication, ProjectionMarkers

An upload of `EvidenceIntake` writes the file, then the item, and unlinks the file if
the second fails; deletion asks once for a package that names the item, then unlinks
the file under the mission and the content's hash. Items of one mission with one
content share that file. A finalization reads the items and inserts a package with
the count of packages it saw. `ReportPublication` is called by tests only, so callers
come in any order; every call is read, validate, write by id. A package carries as history
the states it was in, the contents it had while under review, and whether a call went
on with it after another had moved it. In `ProjectionMarkers` the head is the number of
entries; a projection reads the head and then the newest entries, skips those that are
withheld (a `release_state` of DRAFT, REJECTED or INTERNAL_ONLY) after the limit was
counted, and appends fall between. No code of the repository writes a release mark on an
entry, so an append may come with any.

### AtcMission, HabitatView, HabitatLink

`transition` of the mission state machine is public, so every edge of its table is an
action, guarded only by the table; `validate_pair_for_handoff` writes flags and partners
before transitions that may raise, and is modelled with what it leaves behind.
`HabitatView` is a function of the documents the caller read, evaluated in the order
of the code, with the words other layers use for their own state. `HabitatLink`
has the grant, the rate limit in the server's memory (lost at `Reboot`), and the
objects that are approved, visible and backed; scores are in hundredths, and
rounding is the code's.

### Estimate and Takeoff

The code computes in `Decimal`, not in floats. In `Estimate` inputs are whole feet, square or
cubic feet, and what follows from them is in hundredths, for which the ceilings of the code are
exact; feet that were read from inches are not whole, and belong to `Takeoff`. `Expand` is
the assembly with its waste and its materials; `Packages` the conversion to packages
by the purchase rule of the material, overridden or not. The ledger is the list of
steps, each with the inputs or the base it records, from which the replay calculates; in
the store any of the quantities of a step may be altered, alone or together, and the rules
may change. What a replay shows is therefore that results follow from what is recorded, not
that nothing was altered. Identifiers and versions that a step records are not altered.

In `Takeoff` lengths are in quarter inches and a quantity is the exact fraction it should
be. The code divides inches by twelve to 28 digits, which is exact only for multiples of
three quarters of an inch; a result remembers whether one of its lengths was rounded, and
where it was, a ceiling at an exact multiple may be one more (`RoundUp`). The error is too
small to reach any other whole number.

### PassportSeal and IndexReadiness

A hash and a signature are injective in what they cover. The store may be damaged
anywhere and keys rotated, removed or replaced under their name; the verification
walks the entries as the code does, with its limit and its precedence of issues. In
`IndexReadiness` each server remembers a state, and documents that repeat a key may
be in the database before an index is, in which case its creation fails.

### DatasetLab

A process is one command or one profile of the runner. Its stages are modelled by the
files they read and write, one step between any two of them, and `Die` may follow any
step. What a clone or a download yields is a record that says what the later stages
ask of it.

### SurveyJob, WeatherGates, LegacyPassport, FieldFlight, Billing

In `SurveyJob` and `FieldFlight` every handler is the step that reads and the step
that writes, or several where it writes several documents. A job may be launched by the
operator's route and by the WebSocket command, which asks neither gate nor meter. `brokenOff`
of `FieldFlight` holds where a call died between retiring and inserting, until the next is
formed. `WeatherGates` evaluates
the three functions over one forecast. In `LegacyPassport` every writer appends to the
ledger it read and writes all of it back; `day` moves and the weather archive knows a
day `ArchiveDelay` days later. An event that is appended by hand is a note or a storm
without a date; after the latter a sweep that reads it raises before it writes anything
(`storm_watcher.py:110`). `Billing` has the two ways of learning of a payment, each
with its two writes.

## 3. Runs

| Run | Result | Instance | Shows |
|---|---|---|---|
| `ledger_strict` | pass | 2 calls at a time, 4 in all, 2 keys, 5 requests, 1 crash, 1 abort | production mode: type, chain, keys, acknowledgements, refinement of `LedgerChain` |
| `ledger_plain` | pass | 2 at a time, 3 in all, 1 crash, 1 abort, absent or legacy start | local mode, with and without a session: a sequence is used once |
| `ledger_legacy` | violation | strict, legacy start | finding 1 |
| `outbox` | pass | 1 event, 2 workers, 1 operator, 2 attempts, 1 crash, 2 expiries, 1 replay | delivery, dead letters, finality, liveness |
| `outbox_dead_letter` | violation | 1 event, 2 workers, 1 attempt, 1 expiry | finding 2 |
| `findings` | pass | 2 findings, 3 users (2 approvers), 2 sessions, 6 requests, 1 crash | statuses on the ledger, separation of duties by author, final references |
| `findings_revised` | violation | 4 requests, no crash | finding 3 |
| `intelligence` | pass | 1 object, 1 finding, 2 sessions, 2 reviews, 2 marks, 2 rebases, 1 crash | what is committed is on the ledger, no refusal is lost, replacements are rebases |
| `publications` | pass | see below | what is published, sent or shown was stored, reviewed, approved and settled |
| `evidence_deleted` | violation | the intake of `publications` | finding 4 |
| `platform` | pass | see below | ledgers chain, bills match flights, quantities are covered, gates and verdicts hold |
| `legacy_storms` | violation | 1 watcher, no outage | finding 5 |

`publications` and `platform` compose modules that share no state. `Init` gives
calls to one part only, so that a behaviour is about one part, and the state space
is the sum of theirs and not the product; nothing is lost, because no part reads
another's variables.

- `publications`: intake with 2 contents, 2 uploads, 1 deletion, 2 finalizations, 1
  other request and a crash (`FinalizedIsStored` is its violation run's); 9 calls of two callers about
  one package key; 3 markings of 2 audiences over a head of up to 3 entries, each withheld or not, and a projection of 2; 3 missions
  with 20 steps and a stop; every capture package and candidate once; every pair of documents of a view;
  2 readings by 2 readers through a grant of 1 tick, a window of 2, one reboot.
- `platform`: 6 requests about a survey job; 4 writes to a legacy passport over 3 days
  (the archive 1 day behind, one outage); one estimate over all assemblies with 4 measures
  (none, negative, a part and several packages), one alteration; takeoffs of every listed length
  and policy, 2 reckonings; 3 processes of the lab, two at a time, one death; 4 field calls
  from 2 tablets; 5 calls about 2 payments; 2 looks at forecasts with 2 rough hours; chains
  of 3 entries, 2 damages, 1 key change; 4 starts of a strict and a lenient server over
  3 indexes with one fault.

Bounds. Two overlapping calls are enough for every race of the ledger, because a
call interferes with another only through the passport document and the row of
one key; four calls let a retry, a duplicate and an independent writer follow a
race. The requests include two writers of one revision, a stale one, a key reused
with other content, tokens by revision only, by hash only and by the empty
hash. One event is enough for the outbox: every statement of the worker filters by
one event id, and `claim_next_event` prefers no row in a way a property depends on.
Two expiries and one crash exceed the attempts allowed, so that exhaustion,
takeover and replay all meet. Six requests about findings are one more than a complete
supersession needs (submit, approve, supersede, submit, approve), so that another handler
overlaps it; every handler conflicts with another only over one finding or the head of
the ledger, so two sessions suffice. For intelligence two reviews with two rebases let
a refusal, its rebase and a second rebase of the same conflict overlap. In the other
modules two callers suffice for the same reason: each handler reads one document, or one and
a count, and writes it once or twice, so that what it can be surprised by is one other
writer in between (with a third call to come later and find the result). A chain of three entries has
a first, an inner and a last one, and limits below and at its length.

Fairness (only in `outbox`): time passes (leases run out, back-off ends), a
claimed event's worker takes its next step unless it dies, operators finish a replay
they began, and `process_one` is called as long as a row is due. The last is a
deployment assumption: the application code contains the worker's functions, and
its loop is left to the deployment (only tests call it). No other module promises
that something will happen: a request that dies is not resumed by anything.

Deadlock checking is off in all runs: the budgets run out and the system stops.

## 4. Proofs

Every safety invariant and every action property of the passing runs is a theorem. The theorems hold
for any sets of calls, keys, users, servers and contents and any bounds, under the named assumptions of
the modules: constants that must differ do, bounds are numbers, a document has the fields its
collection gives it (`DocumentAssumption`, `ObjectAssumption`, `LabAssumption`), a length is made of whole
numbers with a denominator the code accepts, and one that is given as a number has no fraction
(`TakeoffAssumption`). A part of a composed run is proved under its own specification (`EvidenceSpec`,
`SealSpec` and so on), which is what the composition lets that part do. `TakeoffSpec` keeps the
registry's rules as they were at first, as `MCPlatform` does, because a takeoff is made under one
set of rules.

The invariants are of three kinds. In the ledger, the reviews, the outbox, the reports and the intake a
document alone does not show why its mark is true: the mark was written by a handler that had seen or
done something some awaits before. There the invariant says for each step of a handler what it
knows or has left behind, and the proof that others do not undo it is that logs, counts and
histories only grow. Where counts are compared (bills, strikes) the handlers between two writes
are themselves counted, by `Cardinality`. And where a result is computed in one step from data
(views, takeoffs, weather, scores) the invariant says where the result came from, and the work is in the
lemmas about the computation.

Ledger (`PassportLedgerProofs`).

- `TypeCorrect` (any mode): `TypeOK`, strengthened by what `pc` says of the
  locals.
- `ChainAlwaysVerifies` (production: `Strict`, and no legacy document at the start).
  Verification compares the head with the last entry and every entry with
  its predecessor, which is not inductive. `ProductionInv` says more: entries are
  exactly 1 .. revision with prior hashes linked, the head and the sequence
  counter agree with the revision, no revision is claimed ahead of its entry, a
  call's snapshot of revision and head is of one moment, and no call is in a
  non-transactional phase. Only `Commit` changes the
  chain (`CommitExtends`); `LinkedVerifies` shows that the linked chain satisfies
  `VerifyResult`.
- `SequenceAlwaysUsedOnce` (any mode). `SequenceInv`: the counter document is created by one
  call only, the one that provisioned the passport, and every number held or written lies below it;
  `SequenceSteps` shows that only four actions touch a number.
- `AcknowledgedAlwaysInLedger`, `OneResultForEachKey` (any mode): entries and
  receipts only grow (`DocumentsGrow`); a row that names an entry names one written under
  its key with its fingerprint, and continues to name it through the FAILED
  upserts; an answer agrees with the row of its key.
- `OneEntryForEachKey`, `ImplementsLedgerChain` (production): `RefInv` adds that a
  request in its transaction was not stale against its snapshot and that every
  entry's key has a row. Each step then appends one request that names the
  current length under an unused key, or leaves the log alone.

Findings (`FindingReviewProofs`): `StatusAlwaysOnLedger`, `AuthorsNeverApprove`,
`ProvenanceAlwaysFinal`, `TypeCorrect`. The invariant has four parts: types; `Documents`, what the
status and the reference of a finding say of the log; `Entries`, that keys of entries are
unique and a publication's approver is not its finding's creator; and `Handlers`, what a handler
at each step knows although everything it read may be stale. The key fact is
`OnePublication`: a finding's key lets it have one entry, so any handler that saw a publication
of the finding saw the one its reference names, and writing it again changes nothing. The log
only grows (`LogPersists`), which keeps what handlers know true.

Intelligence (`IntelligenceReviewProofs`): `CommittedAlwaysOnLedger`, `RefusalsAlwaysQueued`,
`ReplacementsAlwaysOnLedger`, `ReferenceAlwaysFinal`, `TypeCorrect`. Beside unique keys of the log
(`KeysOnce`) the invariant says that a committed row names the entry of its key and has its
fingerprint (`Rows`), because a repeated request is answered from the row; that a conflict is the attempt
of some request (`Attempts`), because a fingerprint leaves out the key and only its content tells an
approval from a rebase; what an object's reference stands for (`Documents`), and what a handler asks
for and has learned at each step (`Handlers`). `Moves` lists what a step makes of its handler. Log,
attempts and references only grow or stay (`LogPersists`, `ConflictsPersist`, `ReferencesKept`), so
what the other handlers know stays true.

Publications (`PublicationsProofs`).

- `RecordedAlwaysStored`, `PackagesAlwaysInOrder`. `Knows` says of a session what it has put, and that a
  finalization that counted n packages of its mission will find version n there. Versions of a mission are
  without a gap (`VersionsWithoutGap`) although two packages may share one; a version is no more than
  the package's place, so that there is a largest.
- `HistoryAlwaysTrue`. Every state of a package has been reached by it, and what is reached has its
  predecessors of the table reached too (`PastIsWhole`); a call may write a state that
  the present one does not allow, but only one allowed by a state the package was in (`CallKnows`).
  As long as no call went on with a package another had moved, its content changes only by a
  rendering, after which it is reviewed anew (`ContentIsReviewed`).
- `ProjectionAlwaysFull`, `ApprovedAlwaysPublished`: what a worker has read is no more than there is
  now (`ReadsTrue`), as heads only grow, a release mark stays and a published source is not taken back.
- `AcceptedAlwaysPassedGates`: `MissionHolds` ties flags and state of a mission to its type, its
  partner and its past; `EdgesKeepGates` reads from the table that no edge leads around a gate or out
  of a stop.
- `HomeownerAlwaysSeesSettled`: the view is `ViewOf` of its documents; the lemmas follow each kind of
  document through the words of the layers (`EstimateSettles` and its like).
- `ScoresAlwaysAgree`: sums of penalties over any finite set of objects are numbers, rounding
  half to even is monotone and keeps a mean among its terms.

Contractor platform (`ContractorProofs`).

- `AlwaysBilledAsFlown`: `BillIsOwned` adds to captures, bills and charges the requests standing before
  each of them; `RestrictedAlwaysWarned`: `StrikesAreOwned` gives every strike under way a
  breach of its own, beside those it has read.
- `PerimeterAlwaysStands`: the property itself is inductive with the types, because a call that
  retires what is active then stands before its insertion, and leaves that step only by forming
  one or by dying there.
- `LegacyChainAlwaysVerifies`, `EndorsedAlwaysSigned`: every copy of a ledger, stored or held by a caller,
  is sound by itself (`DocumentsSound`, `CallerKnows`), so that writing any of them back keeps the stored
  one sound; a token to be minted belongs to one caller (`TokensAreOwned`).
- `BillingAlwaysAgrees`: a row is inserted by the one request whose session it is, and what the
  service said of a session that is paid or expired stays so (`RowsAreOwned`, `KnowsSession`).
- `WindowsAlwaysPass`: sums of rain and clouds over any stretch of hours are numbers (`HourInv`), the
  gate and the pulse were computed over one forecast (`GateInv`), each suggested slot suits.

Estimates (`EstimateProofs`).

- `EnoughAlwaysBought`: coverage and waste of a line are the registry's as long as there is no estimate;
  conversion takes the ceiling, which is the least number of packages that covers (`CeilingIsLeast`).
- `ReplayAlwaysSound`: `LedgerKept` says which fields of a step no alteration touches (kind, material,
  version), named by the step's own sequence, since steps may be swapped. A replay confirms results of the
  base a step records, so they are the calculated ones only where the base is; a rule's first version has
  the coverage it had, so an original step verifies as long as its version is there.
- `LengthsAlwaysAsWritten`, `PurchasesAlwaysAgree`: `ResultsInv` keeps for every result which lengths it
  was read from and which quantity was rounded up. The arithmetic is in lemmas of its own: a
  fraction bought for its lowest terms is bought for its terms (`CeilingScales`), waste commutes with
  reduction (`GrossOfWaste`). What is bought for a rounded length is the least number that covers, or
  the next one where the least fits exactly.

Platform (`PlatformProofs`).

- Outbox: `DeliveredAlwaysApplied`, `DeadLettersAlwaysRecorded`, `DeliveryIsFinal`, `TypeCorrect`. `WorkInv`
  says what a worker at each step has left behind (a handler applied, a receipt written, a letter
  counted), `RowInv` what the marks of a row stand for. The counts only grow
  (`CountsGrow`), so neither is undone by another worker, and a row
  once delivered stays so and free of leases under every write that is filtered by
  something it read (`KeptStep`).
- `LatestAlwaysReconstructed`: `OwnRuns` (no two processes build one run), `FreshRuns` (a run not begun has
  left nothing), `BuildInv` (how far a run's files are at each step), `OutputInv` (what is promoted).
- `VerdictAlwaysTrue`: an entry in the store, however it was damaged, has the hash and the order it was
  written with (`ChainInv`). A content hash covers the hash before it, so a chain that passes and whose
  last hash is the head's is the written one, by descent from its last entry to the first.
  For the other direction, an undamaged chain raises no issue (`UndamagedInv`), unless an append
  overtook the verification (`CheckInv`) or a key was taken away (`KeysInv`).
- `ReadyAlwaysUnique`, for any servers, strict or not, and any table of indexes with distinct names:
  `Enforced` (an index in the database excludes repeated keys), `Noted` (what an initialising server
  has noted is there) and `Believed` (a server that is ready found every unique index).

`ProofBasics`. The library states induction over numbers and finite sets with an operator as a
parameter, which the installed provers cannot instantiate. What these proofs need of it is obtained from
well-foundedness instead, which is stated without one: a set of numbers has a least member
(`LeastNatural`, and `GreatestNatural` below a bound), so a claim that fails somewhere fails
first somewhere; a set of subsets of a finite set has a least member too (`LeastSubset`), from which the
recursive function in `MapThenSumSet` exists and is the only one (`SumsExist`, `SumsAgree`), and
unfolds (`SumUnfolds`).

Only model-checked: `EventuallySettled`, because liveness under fairness is outside the prover's reach;
and the composition of the parts in `MCPublications` and `MCPlatform`, which share no variables.

What proving corrected in the models, none of which a run had shown:

- `PassportSeal` forgot that a verification had been overtaken when a second append followed
  its end; with one verification in the instance nobody could see it.
- `Takeoff.Inches` and `PassportLedger.VerifyResult` were a CASE with guards that overlap, whose
  value TLA+ leaves open. The first is disjoint now, the second in the order in which the code looks.

## 5. Findings

1. *The legacy upgrade can undo a commit* (`passport_service.py:157`), because its
   update is filtered by id alone; afterwards the chain does not verify.
2. *A delivered event can be dead-lettered* (`outbox_worker.py:515`), and can then
   neither be replayed nor leave the dead letters of the readiness report.
3. *An approver can approve their own revision* (`routes/findings.py:405`): a submit
   that overlaps the edit writes back the history it read, without the edit.
4. *A file of a finalized package can be deleted* (`routes/evidence.py:345`): the
   deletion looks for a package before the package is made, or the file is shared with
   an intentional duplicate in the same mission.
5. *A storm is not recorded after the first sweep* (`backend/routes/storm_watcher.py:35`): each
   query begins at the day of the last sweep and ends four days before today, and is
   empty unless sweeps are further apart.

Eight more sentences of the repository are broken by its code. Their configurations stand beside the
modules and are not among the runs above; `tlc -config <file> <module>` prints a counterexample of each
in seconds.

| Configuration, module, property | The sentence | What the code does |
|---|---|---|
| `ConflictsClosed.cfg`, `MCIntelligenceReview`, `ClosedIsFinal` | "Resolved/rejected history remains immutable and is not overwritten." (`PASSPORT_CONCURRENCY_AND_APPROVAL_AUTHORITY.md:102`) | the status is checked on a copy and written by id (`passport_conflicts.py:212`): a review that overlaps a rejection reopens what was rejected |
| `RebaseAuthors.cfg`, `MCIntelligenceReview`, `RebasersAreNotAuthors` | a rebase must "pass the same approval/publication gates" (`PASSPORT_CONCURRENCY_AND_APPROVAL_AUTHORITY.md:113`) | `approve_rebase` publishes without asking the approval policy (`routes/passports.py:330`): the author of the refused attempt may rebase it |
| `ReportTimeline.cfg`, `MCPublications`, `TimelineIsValidated` | "never for raw PROPOSED without validation" (`report_publication.py:872`) | SUPERSEDED is among the states that may be told (`:880`), and can be reached from PROPOSED |
| `ReportTransitions.cfg`, `MCPublications`, `TransitionsEnforced` | "transitions enforced below", "with guarded transitions" (`report_publication.py:91`, `:381`) | the table is asked about the state that was read, and the write is by id (`:415`) |
| `SurveyLock.cfg`, `MCPlatform`, `LockHolds` | "Software-locks launch unless overall=PASS." (`backend/server.py:1294`) | the gate may be run again and fail between the check of a launch and its write (`:725`) |
| `FieldZones.cfg`, `MCPlatform`, `OneActiveZone` | "One active zone per job." (`backend/geofence_service.py:57`) | retiring and inserting are two writes (`:71`), and two calls may retire first and insert then |
| `WeatherWindows.cfg`, `MCPlatform`, `WindowsSatisfyGates` | "windows that satisfy all 4 ASTM gates" (`backend/server.py:1352`) | the search looks for rain in the hours i and i + 1 (`:1382`), the gate in i + 1 and i + 2 |
| `TakeoffPieces.cfg`, `MCPlatform`, `PiecesAreCeiling` | "Ceil(net_with_waste / coverage_per_piece)" (`estimator/engine.py:296`) | feet are rounded to 28 digits (`estimator/units.py:242`): 1'-8" by 3' is a little over 5 square feet and takes 6 pieces of 1 |

Also seen while modelling, without a run of their own.

Ledger and reviews: the loser of a compare-and-swap marks the winner's committed idempotency row FAILED
(`passport_service.py:678`; no second entry or answer can arise from it); a rejected finding can be
on the ledger when reject and approve overlap (`routes/findings.py:649`); `update_finding` leaves
`content_hash` as it was created; an approval that dies between the ledger commit and the update of the
finding can never be completed (each retry has another fingerprint under the same key); a death before
`emit_outbox_event` loses the event; a retry of an intelligence review under its key never repeats its
payload (`routes/intelligence.py:402`); a failed review may overwrite the state of a committed one (the
reference stays); a finalization that repeats
another marks the prior finding superseded once more;
an emptied ledger with a head verifies, and a verification that races an append reports HEAD_MISMATCH.

Outbox: `inbox_receipts` has no unique index; a handler that kills its worker is never dead-lettered
(`outbox_worker.py:564`).

Evidence, reports, projections, ATC: two advances may return a mission to an earlier stage; two
finalizations may make packages of one version, or one that lacks an item; two creations may make two
packages under one key, a package rendered anew by a call that raced its review is delivered
unreviewed, and a delivery requested again after a new rendering emits nothing; a reconciliation may mark
matched what has moved on; an accepted ATC pair need not be each other's partner, and a
failed validation leaves a READY mission whose partner is BLOCKED; a missing required artifact gives
REJECTED, so that ADDITIONAL_CAPTURE is not reached.

Habitat: one estimate with a count of zero and no availability refuses the whole view; a revoked grant is
still used by a request under way; refused requests count toward the rate limit, which a restart
forgets; completeness rounds to 100 at 199 of 200.

Estimator: a fraction without whole inches and a numerator of two digits is misread (15/16" is read as
1 5/16", `estimator/units.py:158`), and the sign of -12' 6" belongs to the feet alone; the replay of
drywall with a ceiling refuses some honest ledgers, and a base that is altered together with its
results replays (`estimator/ledger.py:444`); an override may map a
material to a rule of another family; the waste policy's version is not recorded in the steps.

Contractor platform: a job can be launched and billed twice, and the WebSocket command launches it
without gate, audit row or bill; overlapping calls can lose a strike or lift a restriction late;
a death between the two writes of a payment leaves a paid row and no subscription; ledger entries of
the legacy passport are lost by overlapping writers, and a claim's own entry always when it seeds the
scans it compares; a storm appended by hand has no date, and every later sweep of that passport raises.

Dataset lab: an earlier run that ends later overwrites `reconstruction_latest.json`; a dry run hides an
acquired data set; a clone that is killed leaves a tree the next acquisition accepts; the license gate
lets REVIEW_REQUIRED pass.

The modules define some of these as properties (`OnePackagePerKey`, `StageNeverRegresses`,
`VersionsAreUnique`, `MatchedIsCurrent`, `LaunchedOnce`, `EntriesStay` and
others). No run checks them: the code does not have them, and they are ours. What a sentence of the
repository promises is in the lists above.

For the same reason some properties say less than one would wish, and leave to this list the half of their
hazard that the code does not prevent: `PackagesInOrder` does not ask that versions differ, `BilledAsFlown` not
that a job is billed once, `RestrictedWasWarned` not that every breach is counted, `EndorsedAreSigned` not
that a signed entry stays, `BillingAgrees` nothing of a payment whose request died between its
writes, `ChainVerifies` nothing of a passport that died before its sequence document.

## 6. Not modelled

- The back office of the contractor platform (`backend/routes/admin_ops.py`, `phase34.py`, `sales_hub.py`,
  `mission_control.py`, `quote_builder.py`, `consensus.py`, `supply_chain.py`, `rolodex.py`, `onboarding.py`)
  and the creation of properties and organizations (`routes/properties.py`, `routes/organizations.py`):
  each inserts or updates a document of its own that no modelled part decides by.
- Frontend (presentation), hardware gateway (a stub), the demonstration report and its
  rendering, and routes that only read: no state changes.
- Extraction of image metadata, parsing of ATC fixtures, wording of catalogues, redaction of
  private fields by name and the sanitizer of dead letters: functions of one document, better
  tested than modelled.
- Backlog and readiness reports of the outbox: they only read. The property timeline and audit
  events of reviews: nothing reads them back.
- In the estimate: alterations of the identifiers and versions a step records, and of what the ledger
  says of itself; in the dataset lab: two runs of one second that share a directory
  (`dataset_lab/reconstruction.py:366`); in seals: receipts and unsupported schemas.
- Authentication, object storage and external services: external; what they may answer is a choice.

## 7. Plan

Done: the ledger with its refinement; outbox, findings, intelligence and conflicts; intake, reports,
projections, ATC, habitat; estimator, seals, indexes, dataset lab and the contractor platform, each
with every safety property of its run proved. Worth proving next: action properties of the modules that
have only invariants (packages are never rewritten, a paid row stays paid, a signed token stays
signed), that `IntelligenceReview` behaves to its log as `LedgerChain` does, and that the parts of a
composed run stay apart. Worth modelling next: the timeline and audit events, once something reads them,
and the quotes and consensus routes of the contractor platform. Liveness stays with TLC.
