--------------------------- MODULE OutboxDelivery ---------------------------
(***************************************************************************)
(* Delivery of the durable outbox (nextgen/outbox.py, outbox_worker.py).   *)
(* Workers run process_one: claim a row under a lease, call the handler,   *)
(* then mark the row delivered, put it off, or dead-letter it.  Operators  *)
(* replay what failed.  Each await on a collection is a step.              *)
(*                                                                         *)
(* Events are named by their idempotency key (its unique index exists).    *)
(* Timestamps are only ever compared with now, so available_after is the   *)
(* flag "has come" and lease_until is none, live or expired; time passing  *)
(* is the two actions that change them.                                    *)
(***************************************************************************)
EXTENDS Integers, FiniteSets

CONSTANTS
    Keys,           \* idempotency keys of the events
    Workers,        \* concurrent callers of process_one
    Operators,      \* concurrent callers of replay_dead_lettered_event
    Nobody,         \* leased_by = None
    MaxAttempts,    \* max_attempts
    MaxCrashes,     \* bound on the workers and operators that die
    MaxExpiries,    \* bound on the leases that run out under a working holder
    MaxReplays      \* bound on the replays asked for

ASSUME OutboxAssumption ==
    /\ Keys # {} /\ Nobody \notin Workers
    /\ MaxAttempts \in Nat \ {0}
    /\ {MaxCrashes, MaxExpiries, MaxReplays} \subseteq Nat

VARIABLES
    row,        \* outbox_events, by key
    inbox,      \* number of inbox_receipts of each event
    letters,    \* number of dead_letter_events of each event, not replayed and replayed
    worker,     \* each worker: where it is, and the event as it was when claimed
    operator,   \* each operator: where it is, and the event it replays
    applied,    \* history: handler calls that returned, by event
    budget      \* what is left of the bounds

vars == <<row, inbox, letters, worker, operator, applied, budget>>

----------------------------------------------------------------------------
Row == [present : BOOLEAN, available : BOOLEAN, lease : {"none", "live", "expired"},
        holder : Workers \cup {Nobody}, attempts : Nat,
        failed : BOOLEAN,       \* last_error is set
        delivered : BOOLEAN, dead : BOOLEAN]

NewRow == [present |-> TRUE, available |-> TRUE, lease |-> "none", holder |-> Nobody,
           attempts |-> 0, failed |-> FALSE, delivered |-> FALSE, dead |-> FALSE]

WorkerState == [pc : {"idle", "handle", "receipt", "insert", "mark", "retry", "bury", "buried"},
                key : Keys, attempts : Nat]

AnyKey == CHOOSE k \in Keys : TRUE
IdleWorker == [pc |-> "idle", key |-> AnyKey, attempts |-> 0]
IdleOperator == [pc |-> "idle", key |-> AnyKey]

TypeOK ==
    /\ row \in [Keys -> Row]
    /\ inbox \in [Keys -> Nat]
    /\ letters \in [Keys -> [open : Nat, replayed : Nat]]
    /\ worker \in [Workers -> WorkerState]
    /\ operator \in [Operators -> [pc : {"idle", "requeue", "close"}, key : Keys]]
    /\ applied \in [Keys -> Nat]
    /\ budget \in [crashes : Nat, expiries : Nat, replays : Nat]

Init ==
    /\ row = [k \in Keys |-> [NewRow EXCEPT !.present = FALSE]]
    /\ inbox = [k \in Keys |-> 0]
    /\ letters = [k \in Keys |-> [open |-> 0, replayed |-> 0]]
    /\ worker = [w \in Workers |-> IdleWorker]
    /\ operator = [o \in Operators |-> IdleOperator]
    /\ applied = [k \in Keys |-> 0]
    /\ budget = [crashes |-> MaxCrashes, expiries |-> MaxExpiries, replays |-> MaxReplays]

\* A second emission under the key finds the row and changes nothing.
Emit(k) ==
    /\ ~row[k].present
    /\ row' = [row EXCEPT ![k] = NewRow]
    /\ UNCHANGED <<inbox, letters, worker, operator, applied, budget>>

----------------------------------------------------------------------------
(* The clock *)

WorkingOn(w, k) == worker[w].pc # "idle" /\ worker[w].key = k

\* A lease runs out while its holder is at work only as often as the bound says.
LeaseRunsOut(k) ==
    /\ row[k].lease = "live"
    /\ IF \E w \in Workers : row[k].holder = w /\ WorkingOn(w, k)
       THEN budget.expiries > 0 /\ budget' = [budget EXCEPT !.expiries = @ - 1]
       ELSE UNCHANGED budget
    /\ row' = [row EXCEPT ![k].lease = "expired"]
    /\ UNCHANGED <<inbox, letters, worker, operator, applied>>

BackoffEnds(k) ==
    /\ ~row[k].available
    /\ row' = [row EXCEPT ![k].available = TRUE]
    /\ UNCHANGED <<inbox, letters, worker, operator, applied, budget>>

----------------------------------------------------------------------------
(* claim_next_event *)

Goto(w, from, to) ==
    /\ worker[w].pc = from
    /\ worker' = [worker EXCEPT ![w].pc = to]

Finish(w, from) ==
    /\ worker[w].pc = from
    /\ worker' = [worker EXCEPT ![w] = IdleWorker]

\* Mutant of Claimable: a lease that has run out is not taken over.
ClaimableUnleased(r) ==
    /\ r.present
    /\ ~r.delivered /\ ~r.dead
    /\ r.available
    /\ r.lease = "none"

Claimable(r) ==
    /\ r.present
    /\ ~r.delivered /\ ~r.dead
    /\ r.available
    /\ r.lease \in {"none", "expired"}

Claim(w, k) ==
    /\ worker[w].pc = "idle"
    /\ Claimable(row[k])
    /\ row' = [row EXCEPT ![k].holder = w, ![k].lease = "live", ![k].attempts = @ + 1]
    /\ worker' = [worker EXCEPT ![w] = [pc |-> "handle", key |-> k,
                                        attempts |-> row[k].attempts + 1]]
    /\ UNCHANGED <<inbox, letters, operator, applied, budget>>

----------------------------------------------------------------------------
(* process_one, after the claim *)

HandlerReturns(w) ==
    /\ Goto(w, "handle", "receipt")
    /\ applied' = [applied EXCEPT ![worker[w].key] = @ + 1]
    /\ UNCHANGED <<row, inbox, letters, operator, budget>>

\* attempts is the claimed row's, not the current one's.
Exhausted(w) == worker[w].attempts >= MaxAttempts

\* Mutant of HandlerRaises: an exception that leaves attempts is swallowed.
HandlerSwallows(w) ==
    /\ Goto(w, "handle", IF Exhausted(w) THEN "bury" ELSE "receipt")
    /\ UNCHANGED <<row, inbox, letters, operator, applied, budget>>

HandlerRaises(w) ==
    /\ Goto(w, "handle", IF Exhausted(w) THEN "bury" ELSE "retry")
    /\ UNCHANGED <<row, inbox, letters, operator, applied, budget>>

\* _write_inbox_receipt looks for a receipt and inserts one in two steps.
FindReceipt(w) ==
    /\ Goto(w, "receipt", IF inbox[worker[w].key] > 0 THEN "mark" ELSE "insert")
    /\ UNCHANGED <<row, inbox, letters, operator, applied, budget>>

InsertReceipt(w) ==
    /\ Goto(w, "insert", "mark")
    /\ inbox' = [inbox EXCEPT ![worker[w].key] = @ + 1]
    /\ UNCHANGED <<row, letters, operator, applied, budget>>

\* Whoever holds the lease by now, and dead-lettered or not.
MarkDelivered(w) ==
    /\ Finish(w, "mark")
    /\ row' = [row EXCEPT ![worker[w].key] =
                  IF @.delivered THEN @
                  ELSE [@ EXCEPT !.delivered = TRUE, !.lease = "none", !.holder = Nobody,
                                 !.failed = FALSE]]
    /\ UNCHANGED <<inbox, letters, operator, applied, budget>>

ScheduleRetry(w) ==
    /\ Finish(w, "retry")
    /\ row' = [row EXCEPT ![worker[w].key] =
                  IF @.delivered \/ @.dead THEN @
                  ELSE [@ EXCEPT !.available = FALSE, !.lease = "none", !.holder = Nobody,
                                 !.failed = TRUE]]
    /\ UNCHANGED <<inbox, letters, operator, applied, budget>>

\* _move_to_dead_letter
WriteDeadLetter(w) ==
    /\ Goto(w, "bury", "buried")
    /\ letters' = [letters EXCEPT ![worker[w].key].open = @ + 1]
    /\ UNCHANGED <<row, inbox, operator, applied, budget>>

\* The update is by event id alone.
MarkDead(w) ==
    /\ Finish(w, "buried")
    /\ row' = [row EXCEPT ![worker[w].key] =
                  [@ EXCEPT !.dead = TRUE, !.lease = "none", !.holder = Nobody,
                            !.failed = TRUE]]
    /\ UNCHANGED <<inbox, letters, operator, applied, budget>>

\* The process dies, or one of the updates raises.
Crash(w) ==
    /\ worker[w].pc # "idle"
    /\ budget.crashes > 0
    /\ budget' = [budget EXCEPT !.crashes = @ - 1]
    /\ worker' = [worker EXCEPT ![w] = IdleWorker]
    /\ UNCHANGED <<row, inbox, letters, operator, applied>>

----------------------------------------------------------------------------
(* replay_dead_lettered_event *)

Replayable(r) == r.present /\ ~r.delivered /\ (r.dead \/ r.failed)

RequestReplay(o, k) ==
    /\ operator[o].pc = "idle"
    /\ budget.replays > 0
    /\ Replayable(row[k])
    /\ budget' = [budget EXCEPT !.replays = @ - 1]
    /\ operator' = [operator EXCEPT ![o] = [pc |-> "requeue", key |-> k]]
    /\ UNCHANGED <<row, inbox, letters, worker, applied>>

\* Mutant of Requeued: delivered_at is reset with the other marks.
RequeuedAfresh(r, reset) ==
    [NewRow EXCEPT !.attempts = IF reset THEN 0 ELSE r.attempts]

\* The update is by event id alone; attempts is reset unless the caller declines.
Requeued(r, reset) ==
    [r EXCEPT !.dead = FALSE, !.available = TRUE, !.lease = "none", !.holder = Nobody,
              !.failed = FALSE, !.attempts = IF reset THEN 0 ELSE @]

Requeue(o) ==
    /\ operator[o].pc = "requeue"
    /\ operator' = [operator EXCEPT ![o].pc = "close"]
    /\ \E reset \in BOOLEAN :
          row' = [row EXCEPT ![operator[o].key] = Requeued(@, reset)]
    /\ UNCHANGED <<inbox, letters, worker, applied, budget>>

\* Mutant of CloseDeadLetter: the dead letter is deleted, whether there is one or not.
DeleteDeadLetter(o) ==
    /\ operator[o].pc = "close"
    /\ operator' = [operator EXCEPT ![o] = IdleOperator]
    /\ letters' = [letters EXCEPT ![operator[o].key].open = @ - 1]
    /\ UNCHANGED <<row, inbox, worker, applied, budget>>

\* One dead letter is closed, however many the event has.
CloseDeadLetter(o) ==
    LET k == operator[o].key
    IN  /\ operator[o].pc = "close"
        /\ operator' = [operator EXCEPT ![o] = IdleOperator]
        /\ letters' = IF letters[k].open = 0 THEN letters
                      ELSE [letters EXCEPT ![k].open = @ - 1, ![k].replayed = @ + 1]
        /\ UNCHANGED <<row, inbox, worker, applied, budget>>

OperatorCrash(o) ==
    /\ operator[o].pc # "idle"
    /\ budget.crashes > 0
    /\ budget' = [budget EXCEPT !.crashes = @ - 1]
    /\ operator' = [operator EXCEPT ![o] = IdleOperator]
    /\ UNCHANGED <<row, inbox, letters, worker, applied>>

----------------------------------------------------------------------------
\* The steps a worker takes once it has claimed, unless it dies.
Progress(w) ==
    \/ HandlerReturns(w)    \/ HandlerRaises(w)
    \/ FindReceipt(w)       \/ InsertReceipt(w)   \/ MarkDelivered(w)
    \/ ScheduleRetry(w)     \/ WriteDeadLetter(w) \/ MarkDead(w)

Next ==
    \/ \E k \in Keys : Emit(k) \/ LeaseRunsOut(k) \/ BackoffEnds(k)
    \/ \E w \in Workers :
          \/ \E k \in Keys : Claim(w, k)
          \/ Progress(w)
          \/ Crash(w)
    \/ \E o \in Operators :
          \/ \E k \in Keys : RequestReplay(o, k)
          \/ Requeue(o)
          \/ CloseDeadLetter(o)
          \/ OperatorCrash(o)

Spec == Init /\ [][Next]_vars

\* Time passes, handlers end, and process_one is called as long as a row is due.
Fairness ==
    /\ \A k \in Keys : WF_vars(LeaseRunsOut(k)) /\ WF_vars(BackoffEnds(k))
    /\ WF_vars(\E w \in Workers, k \in Keys : Claim(w, k))
    /\ \A w \in Workers : WF_vars(Progress(w))
    /\ \A o \in Operators : WF_vars(Requeue(o)) /\ WF_vars(CloseDeadLetter(o))

FairSpec == Spec /\ Fairness

----------------------------------------------------------------------------
(* Properties *)

\* An event is marked delivered only when a handler applied it and a receipt
\* says so, however many workers were at it.
DeliveredWasApplied ==
    \A k \in Keys : row[k].delivered => applied[k] > 0 /\ inbox[k] > 0

\* A row is never marked dead without the forensic copy operators look for,
\* also when the worker dies half way or a replay overlaps.
DeadLettersAreRecorded ==
    \A k \in Keys : row[k].dead => letters[k].open + letters[k].replayed > 0

\* Retries are bounded (SD-023): an event is attempted more than MaxAttempts
\* times only for leases that ran out, workers that died and replays.
RetriesAreBounded ==
    \A k \in Keys :
        row[k].attempts <= MaxAttempts + (MaxExpiries - budget.expiries)
                                       + (MaxCrashes - budget.crashes)
                                       + (MaxReplays - budget.replays)

\* A delivered event is never leased again nor becomes undelivered, whatever a
\* slow worker or a replay that saw it undelivered writes afterwards.
DeliveredIsFinal ==
    [][\A k \in Keys : row[k].delivered => row'[k].delivered /\ row'[k].lease = "none"]_vars

\* Every event emitted is in the end delivered or in the dead letters, also when
\* the workers that claimed it died.
EventuallySettled ==
    \A k \in Keys : row[k].present ~> row[k].delivered \/ row[k].dead

\* Failures go to dead-letter and are replayed by an operator (SD-023): what is
\* dead-lettered was not delivered, so that it can be replayed.
DeadLettersAwaitReplay == \A k \in Keys : row[k].dead => ~row[k].delivered
=============================================================================
