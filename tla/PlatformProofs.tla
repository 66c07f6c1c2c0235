--------------------------- MODULE PlatformProofs ----------------------------
(***************************************************************************)
(* What the platform guarantees: delivery by the outbox, for any number of *)
(* events, workers and operators and any bounds on what fails; the runs of *)
(* the dataset lab, the verdict on a sealed chain, and what the readiness a *)
(* server remembers is worth.                                              *)
(***************************************************************************)
EXTENDS OutboxDelivery, DatasetLab, PassportSeal, IndexReadiness, SequenceTheorems,
        ProofBasics

----------------------------------------------------------------------------
(* Delivery by the outbox. *)

LettersOf(k) == letters[k].open + letters[k].replayed
LettersNext(k) == letters'[k].open + letters'[k].replayed

\* What a worker at work has left behind so far.
WorkInv ==
    \A w \in Workers :
        /\ worker[w].pc # "idle" => row[worker[w].key].present
        /\ worker[w].pc \in {"receipt", "insert", "mark"} => applied[worker[w].key] > 0
        /\ worker[w].pc = "mark" => inbox[worker[w].key] > 0
        /\ worker[w].pc = "buried" => LettersOf(worker[w].key) > 0

\* What the marks of a row stand for.
RowInv ==
    \A k \in Keys :
        /\ row[k].delivered => /\ row[k].present /\ row[k].lease = "none"
                               /\ applied[k] > 0 /\ inbox[k] > 0
        /\ row[k].dead => row[k].present /\ LettersOf(k) > 0

OutboxInv == TypeOK /\ WorkInv /\ RowInv

----------------------------------------------------------------------------
LEMMA InitOutbox == Init => OutboxInv
  <1> SUFFICES ASSUME Init PROVE OutboxInv
    OBVIOUS
  <1>1. AnyKey \in Keys
    BY OutboxAssumption DEF AnyKey
  <1>2. TypeOK
    BY <1>1, OutboxAssumption
       DEF Init, TypeOK, NewRow, Row, IdleWorker, WorkerState, IdleOperator
  <1>3. WorkInv
    BY DEF Init, WorkInv, IdleWorker
  <1>4. RowInv
    BY DEF Init, RowInv, NewRow
  <1> QED
    BY <1>2, <1>3, <1>4 DEF OutboxInv

\* What the statements on outbox_events make of a row is a row.
LEMMA RowUpdates ==
    ASSUME NEW r \in Row
    PROVE  /\ [r EXCEPT !.lease = "expired"] \in Row
           /\ [r EXCEPT !.available = TRUE] \in Row
           /\ \A w \in Workers :
                 [r EXCEPT !.holder = w, !.lease = "live", !.attempts = @ + 1] \in Row
           /\ [r EXCEPT !.delivered = TRUE, !.lease = "none", !.holder = Nobody,
                        !.failed = FALSE] \in Row
           /\ [r EXCEPT !.available = FALSE, !.lease = "none", !.holder = Nobody,
                        !.failed = TRUE] \in Row
           /\ [r EXCEPT !.dead = TRUE, !.lease = "none", !.holder = Nobody,
                        !.failed = TRUE] \in Row
  <1>1. [r EXCEPT !.lease = "expired"] \in Row
    BY DEF Row
  <1>2. [r EXCEPT !.available = TRUE] \in Row
    BY DEF Row
  <1>3. ASSUME NEW w \in Workers
        PROVE  [r EXCEPT !.holder = w, !.lease = "live", !.attempts = @ + 1] \in Row
    <2>1. r.attempts + 1 \in Nat
      BY DEF Row
    <2> QED
      BY <2>1 DEF Row
  <1>4. [r EXCEPT !.delivered = TRUE, !.lease = "none", !.holder = Nobody,
                  !.failed = FALSE] \in Row
    BY DEF Row
  <1>5. [r EXCEPT !.available = FALSE, !.lease = "none", !.holder = Nobody,
                  !.failed = TRUE] \in Row
    BY DEF Row
  <1>6. [r EXCEPT !.dead = TRUE, !.lease = "none", !.holder = Nobody,
                  !.failed = TRUE] \in Row
    BY DEF Row
  <1> QED
    BY <1>1, <1>2, <1>3, <1>4, <1>5, <1>6

\* A worker's step writes at most the row of its event.
LEMMA RowsOfWorkers ==
    ASSUME TypeOK, NEW w \in Workers, Progress(w)
    PROVE  row' \in [Keys -> Row]
  <1> DEFINE k == worker[w].key
  <1>1. k \in Keys /\ row[k] \in Row
    BY DEF TypeOK, WorkerState
  <1>2. CASE MarkDelivered(w)
    <2>1. row' = [row EXCEPT ![k] =
             IF row[k].delivered THEN row[k]
             ELSE [row[k] EXCEPT !.delivered = TRUE, !.lease = "none", !.holder = Nobody,
                                 !.failed = FALSE]]
      BY <1>2 DEF MarkDelivered
    <2> QED
      BY <1>1, <2>1, RowUpdates DEF TypeOK
  <1>3. CASE ScheduleRetry(w)
    <2>1. row' = [row EXCEPT ![k] =
             IF row[k].delivered \/ row[k].dead THEN row[k]
             ELSE [row[k] EXCEPT !.available = FALSE, !.lease = "none", !.holder = Nobody,
                                 !.failed = TRUE]]
      BY <1>3 DEF ScheduleRetry
    <2> QED
      BY <1>1, <2>1, RowUpdates DEF TypeOK
  <1>4. CASE MarkDead(w)
    <2>1. row' = [row EXCEPT ![k] =
             [row[k] EXCEPT !.dead = TRUE, !.lease = "none", !.holder = Nobody,
                            !.failed = TRUE]]
      BY <1>4 DEF MarkDead
    <2> QED
      BY <1>1, <2>1, RowUpdates DEF TypeOK
  <1>5. CASE \/ HandlerReturns(w) \/ HandlerRaises(w)   \/ FindReceipt(w)
             \/ InsertReceipt(w)  \/ WriteDeadLetter(w)
    BY <1>5 DEF HandlerReturns, HandlerRaises, FindReceipt, InsertReceipt, WriteDeadLetter,
       TypeOK
  <1> QED
    BY <1>2, <1>3, <1>4, <1>5 DEF Progress

LEMMA RowTypes == ASSUME TypeOK, [Next]_vars PROVE row' \in [Keys -> Row]
  <1> USE DEF TypeOK
  <1>1. ASSUME NEW k \in Keys, Emit(k) PROVE row' \in [Keys -> Row]
    <2>1. NewRow \in Row
      BY DEF NewRow, Row
    <2> QED
      BY <1>1, <2>1 DEF Emit
  <1>2. ASSUME NEW k \in Keys, LeaseRunsOut(k) PROVE row' \in [Keys -> Row]
    BY <1>2, RowUpdates DEF LeaseRunsOut
  <1>3. ASSUME NEW k \in Keys, BackoffEnds(k) PROVE row' \in [Keys -> Row]
    BY <1>3, RowUpdates DEF BackoffEnds
  <1>4. ASSUME NEW w \in Workers, NEW k \in Keys, Claim(w, k) PROVE row' \in [Keys -> Row]
    BY <1>4, RowUpdates DEF Claim
  <1>5. ASSUME NEW w \in Workers, Progress(w) PROVE row' \in [Keys -> Row]
    BY <1>5, RowsOfWorkers
  <1>6. ASSUME NEW o \in Operators, Requeue(o) PROVE row' \in [Keys -> Row]
    <2>1. operator[o].key \in Keys /\ row[operator[o].key] \in Row
      OBVIOUS
    <2>2. PICK reset \in BOOLEAN : row' = [row EXCEPT ![operator[o].key] = Requeued(@, reset)]
      BY <1>6 DEF Requeue
    <2>3. Requeued(row[operator[o].key], reset) \in Row
      BY <2>1 DEF Requeued, Row
    <2> QED
      BY <2>1, <2>2, <2>3
  <1>7. ASSUME \/ \E w \in Workers : Crash(w)
               \/ \E o \in Operators :
                     \/ \E k \in Keys : RequestReplay(o, k)
                     \/ CloseDeadLetter(o) \/ OperatorCrash(o)
               \/ UNCHANGED vars
        PROVE  row' \in [Keys -> Row]
    BY <1>7 DEF Crash, RequestReplay, CloseDeadLetter, OperatorCrash, vars
  <1> QED
    BY <1>1, <1>2, <1>3, <1>4, <1>5, <1>6, <1>7 DEF Next

\* The other variables, in every step.
OtherTypes ==
    /\ inbox \in [Keys -> Nat]
    /\ letters \in [Keys -> [open : Nat, replayed : Nat]]
    /\ worker \in [Workers -> WorkerState]
    /\ operator \in [Operators -> [pc : {"idle", "requeue", "close"}, key : Keys]]
    /\ applied \in [Keys -> Nat]
    /\ budget \in [crashes : Nat, expiries : Nat, replays : Nat]

LEMMA OtherTypesStep == ASSUME TypeOK, [Next]_vars PROVE OtherTypes'
  <1>0. AnyKey \in Keys /\ IdleWorker \in WorkerState
        /\ IdleOperator \in [pc : {"idle", "requeue", "close"}, key : Keys]
    BY OutboxAssumption DEF AnyKey, IdleWorker, WorkerState, IdleOperator
  <1> USE <1>0 DEF TypeOK, OtherTypes
  <1>1. ASSUME NEW k \in Keys, Emit(k) \/ LeaseRunsOut(k) \/ BackoffEnds(k) PROVE OtherTypes'
    BY <1>1 DEF Emit, LeaseRunsOut, BackoffEnds
  <1>2. ASSUME NEW w \in Workers, NEW k \in Keys, Claim(w, k) PROVE OtherTypes'
    <2>1. row[k] \in Row /\ row[k].attempts + 1 \in Nat
      BY DEF Row
    <2>2. [pc |-> "handle", key |-> k, attempts |-> row[k].attempts + 1] \in WorkerState
      BY <2>1 DEF WorkerState
    <2> QED
      BY <1>2, <2>2 DEF Claim
  <1>3. ASSUME NEW w \in Workers, HandlerReturns(w) PROVE OtherTypes'
    <2>1. worker' \in [Workers -> WorkerState]
      BY <1>3 DEF HandlerReturns, Goto, WorkerState
    <2>2. applied' \in [Keys -> Nat] /\ UNCHANGED <<inbox, letters, operator, budget>>
      BY <1>3 DEF HandlerReturns, WorkerState
    <2> QED
      BY <2>1, <2>2
  <1>4. ASSUME NEW w \in Workers, HandlerRaises(w) PROVE OtherTypes'
    <2>0. worker' = [worker EXCEPT ![w] = [worker[w] EXCEPT !.pc =
                        IF Exhausted(w) THEN "bury" ELSE "retry"]]
      BY <1>4 DEF HandlerRaises, Goto
    <2>1. worker' \in [Workers -> WorkerState]
      BY <2>0 DEF WorkerState
    <2>2. UNCHANGED <<inbox, letters, operator, applied, budget>>
      BY <1>4 DEF HandlerRaises
    <2> QED
      BY <2>1, <2>2
  <1>5. ASSUME NEW w \in Workers, FindReceipt(w) \/ InsertReceipt(w) PROVE OtherTypes'
    <2>1. CASE FindReceipt(w)
      <3>1. worker' \in [Workers -> WorkerState]
        BY <2>1 DEF FindReceipt, Goto, WorkerState
      <3> QED
        BY <2>1, <3>1 DEF FindReceipt
    <2>2. CASE InsertReceipt(w)
      <3>1. worker' \in [Workers -> WorkerState]
        BY <2>2 DEF InsertReceipt, Goto, WorkerState
      <3>2. inbox' \in [Keys -> Nat]
        BY <2>2 DEF InsertReceipt, WorkerState
      <3> QED
        BY <2>2, <3>1, <3>2 DEF InsertReceipt
    <2> QED
      BY <1>5, <2>1, <2>2
  <1>6. ASSUME NEW w \in Workers, MarkDelivered(w) \/ ScheduleRetry(w) \/ MarkDead(w)
        PROVE OtherTypes'
    <2>1. worker' = [worker EXCEPT ![w] = IdleWorker]
          /\ UNCHANGED <<inbox, letters, operator, applied, budget>>
      BY <1>6 DEF MarkDelivered, ScheduleRetry, MarkDead, Finish
    <2> QED
      BY <2>1
  <1>7. ASSUME NEW w \in Workers, WriteDeadLetter(w) PROVE OtherTypes'
    <2>1. worker' \in [Workers -> WorkerState]
      BY <1>7 DEF WriteDeadLetter, Goto, WorkerState
    <2>2. letters' \in [Keys -> [open : Nat, replayed : Nat]]
      BY <1>7 DEF WriteDeadLetter, WorkerState
    <2> QED
      BY <1>7, <2>1, <2>2 DEF WriteDeadLetter
  <1>8. ASSUME NEW w \in Workers, Crash(w) PROVE OtherTypes'
    BY <1>8 DEF Crash
  <1>9. ASSUME NEW o \in Operators, NEW k \in Keys, RequestReplay(o, k) PROVE OtherTypes'
    BY <1>9 DEF RequestReplay
  <1>10. ASSUME NEW o \in Operators, Requeue(o) PROVE OtherTypes'
    BY <1>10 DEF Requeue
  <1>11. ASSUME NEW o \in Operators, CloseDeadLetter(o) PROVE OtherTypes'
    BY <1>11 DEF CloseDeadLetter
  <1>12. ASSUME NEW o \in Operators, OperatorCrash(o) PROVE OtherTypes'
    BY <1>12 DEF OperatorCrash
  <1>13. CASE UNCHANGED vars
    BY <1>13 DEF vars
  <1> QED
    BY <1>1, <1>2, <1>3, <1>4, <1>5, <1>6, <1>7, <1>8, <1>9, <1>10, <1>11, <1>12, <1>13
       DEF Next, Progress

LEMMA TypeStep == ASSUME TypeOK, [Next]_vars PROVE TypeOK'
  BY RowTypes, OtherTypesStep DEF TypeOK, OtherTypes

\* Nothing that was done for an event is taken back: a dead letter is closed, never removed.
LEMMA CountsGrow ==
    ASSUME TypeOK, [Next]_vars, NEW k \in Keys
    PROVE  /\ row[k].present => row'[k].present
           /\ applied[k] > 0 => applied'[k] > 0
           /\ inbox[k] > 0 => inbox'[k] > 0
           /\ LettersOf(k) > 0 => LettersNext(k) > 0
  <1> USE DEF TypeOK, LettersOf, LettersNext
  <1>1. ASSUME NEW j \in Keys, Emit(j) \/ LeaseRunsOut(j) \/ BackoffEnds(j)
        PROVE  /\ row[k].present => row'[k].present
               /\ UNCHANGED <<applied, inbox, letters>>
    <2>1. CASE Emit(j)
      BY <2>1 DEF Emit, NewRow
    <2>2. CASE LeaseRunsOut(j)
      BY <2>2 DEF LeaseRunsOut, Row
    <2>3. CASE BackoffEnds(j)
      BY <2>3 DEF BackoffEnds, Row
    <2> QED
      BY <1>1, <2>1, <2>2, <2>3
  <1>2. ASSUME NEW w \in Workers, NEW j \in Keys, Claim(w, j)
        PROVE  /\ row[k].present => row'[k].present
               /\ UNCHANGED <<applied, inbox, letters>>
    BY <1>2 DEF Claim, Row
  <1>3. ASSUME NEW w \in Workers, Progress(w)
        PROVE  /\ row[k].present => row'[k].present
               /\ applied[k] > 0 => applied'[k] > 0
               /\ inbox[k] > 0 => inbox'[k] > 0
               /\ LettersOf(k) > 0 => LettersNext(k) > 0
    <2>1. worker[w].key \in Keys /\ row[k] \in Row
      BY DEF WorkerState
    <2>2. CASE HandlerReturns(w)
      BY <2>1, <2>2 DEF HandlerReturns
    <2>3. CASE HandlerRaises(w) \/ FindReceipt(w)
      BY <2>3 DEF HandlerRaises, FindReceipt
    <2>4. CASE InsertReceipt(w)
      BY <2>1, <2>4 DEF InsertReceipt
    <2>5. CASE MarkDelivered(w)
      BY <2>1, <2>5 DEF MarkDelivered, Row
    <2>6. CASE ScheduleRetry(w)
      BY <2>1, <2>6 DEF ScheduleRetry, Row
    <2>7. CASE WriteDeadLetter(w)
      BY <2>1, <2>7 DEF WriteDeadLetter
    <2>8. CASE MarkDead(w)
      BY <2>1, <2>8 DEF MarkDead, Row
    <2> QED
      BY <1>3, <2>2, <2>3, <2>4, <2>5, <2>6, <2>7, <2>8 DEF Progress
  <1>4. ASSUME NEW w \in Workers, Crash(w) PROVE UNCHANGED <<row, applied, inbox, letters>>
    BY <1>4 DEF Crash
  <1>5. ASSUME NEW o \in Operators, NEW j \in Keys, RequestReplay(o, j)
        PROVE  UNCHANGED <<row, applied, inbox, letters>>
    BY <1>5 DEF RequestReplay
  <1>6. ASSUME NEW o \in Operators, Requeue(o)
        PROVE  /\ row[k].present => row'[k].present
               /\ UNCHANGED <<applied, inbox, letters>>
    BY <1>6 DEF Requeue, Requeued, Row
  <1>7. ASSUME NEW o \in Operators, CloseDeadLetter(o)
        PROVE  /\ UNCHANGED <<row, applied, inbox>>
               /\ LettersOf(k) > 0 => LettersNext(k) > 0
    BY <1>7 DEF CloseDeadLetter
  <1>8. ASSUME NEW o \in Operators, OperatorCrash(o)
        PROVE  UNCHANGED <<row, applied, inbox, letters>>
    BY <1>8 DEF OperatorCrash
  <1>9. CASE UNCHANGED vars
    BY <1>9 DEF vars
  <1> QED
    BY <1>1, <1>2, <1>3, <1>4, <1>5, <1>6, <1>7, <1>8, <1>9 DEF Next

----------------------------------------------------------------------------
\* The work of one worker, in the step it takes or that others take.
WorkOf(w) ==
    /\ worker[w].pc # "idle" => row[worker[w].key].present
    /\ worker[w].pc \in {"receipt", "insert", "mark"} => applied[worker[w].key] > 0
    /\ worker[w].pc = "mark" => inbox[worker[w].key] > 0
    /\ worker[w].pc = "buried" => LettersOf(worker[w].key) > 0

LEMMA WorkStep == ASSUME OutboxInv, [Next]_vars PROVE WorkInv'
  <1> SUFFICES ASSUME NEW v \in Workers PROVE WorkOf(v)'
    BY DEF WorkInv, WorkOf
  <1> USE DEF OutboxInv
  <1>0. worker[v].key \in Keys /\ worker[v].key = worker[v].key
    BY DEF TypeOK, WorkerState
  <1>1. WorkOf(v)
    BY DEF WorkInv, WorkOf
  <1>2. CASE worker'[v] = worker[v]
    BY <1>0, <1>1, <1>2, CountsGrow DEF WorkOf, LettersOf, LettersNext
  <1>3. CASE worker'[v].pc = "idle"
    BY <1>3 DEF WorkOf
  <1>4. ASSUME NEW k \in Keys, Claim(v, k) PROVE WorkOf(v)'
    BY <1>4 DEF Claim, Claimable, WorkOf, TypeOK, Row
  <1>5. CASE HandlerReturns(v)
    BY <1>0, <1>1, <1>5, CountsGrow DEF HandlerReturns, Goto, WorkOf, TypeOK, WorkerState
  <1>6. CASE HandlerRaises(v)
    BY <1>0, <1>1, <1>6, CountsGrow DEF HandlerRaises, Goto, WorkOf, TypeOK, WorkerState
  <1>7. CASE FindReceipt(v)
    BY <1>0, <1>1, <1>7, CountsGrow DEF FindReceipt, Goto, WorkOf, TypeOK, WorkerState
  <1>8. CASE InsertReceipt(v)
    BY <1>0, <1>1, <1>8, CountsGrow DEF InsertReceipt, Goto, WorkOf, TypeOK, WorkerState
  <1>9. CASE WriteDeadLetter(v)
    BY <1>0, <1>1, <1>9 DEF WriteDeadLetter, Goto, WorkOf, TypeOK, WorkerState, LettersOf
  <1>10. CASE MarkDelivered(v) \/ ScheduleRetry(v) \/ MarkDead(v) \/ Crash(v)
    <2>1. worker'[v].pc = "idle"
      BY <1>10 DEF MarkDelivered, ScheduleRetry, MarkDead, Crash, Finish, IdleWorker, TypeOK
    <2> QED
      BY <2>1, <1>3
  <1>11. ASSUME NEW w \in Workers, w # v, (\E k \in Keys : Claim(w, k)) \/ Progress(w) \/ Crash(w)
         PROVE  worker'[v] = worker[v]
    BY <1>11 DEF TypeOK, Claim, Progress, HandlerReturns, HandlerRaises, FindReceipt,
       InsertReceipt, MarkDelivered, ScheduleRetry, WriteDeadLetter, MarkDead, Crash,
       Goto, Finish
  <1>12. ASSUME NEW k \in Keys, Emit(k) \/ LeaseRunsOut(k) \/ BackoffEnds(k)
         PROVE  worker'[v] = worker[v]
    BY <1>12 DEF Emit, LeaseRunsOut, BackoffEnds
  <1>13. ASSUME NEW o \in Operators,
                \/ \E k \in Keys : RequestReplay(o, k)
                \/ Requeue(o) \/ CloseDeadLetter(o) \/ OperatorCrash(o)
         PROVE  worker'[v] = worker[v]
    BY <1>13 DEF RequestReplay, Requeue, CloseDeadLetter, OperatorCrash
  <1>14. CASE UNCHANGED vars
    BY <1>2, <1>14 DEF vars
  <1> QED
    BY <1>2, <1>4, <1>5, <1>6, <1>7, <1>8, <1>9, <1>10, <1>11, <1>12, <1>13, <1>14
       DEF Next, Progress

----------------------------------------------------------------------------
\* The marks of one row; and a step of it that sets no mark.
MarksOf(k) ==
    /\ row[k].delivered => /\ row[k].present /\ row[k].lease = "none"
                           /\ applied[k] > 0 /\ inbox[k] > 0
    /\ row[k].dead => row[k].present /\ LettersOf(k) > 0

Unmarked(k) ==
    /\ row'[k].delivered => row[k].delivered
    /\ row'[k].dead => row[k].dead

\* Delivered rows stay as they are, but for the marks that are taken from them.
Kept(k) == row[k].delivered => row'[k].delivered /\ row'[k].lease = "none"

LEMMA KeptStep ==
    ASSUME OutboxInv, [Next]_vars, NEW k \in Keys
    PROVE  Kept(k)
  <1>0. row[k] \in Row /\ MarksOf(k)
    BY DEF OutboxInv, RowInv, MarksOf, TypeOK
  <1> USE <1>0 DEF Kept, MarksOf, OutboxInv, TypeOK
  <1>1. ASSUME NEW j \in Keys, Emit(j) \/ LeaseRunsOut(j) \/ BackoffEnds(j) PROVE Kept(k)
    <2>1. CASE Emit(j)
      BY <2>1 DEF Emit
    <2>2. CASE LeaseRunsOut(j)
      BY <2>2 DEF LeaseRunsOut
    <2>3. CASE BackoffEnds(j)
      BY <2>3 DEF BackoffEnds, Row
    <2> QED
      BY <1>1, <2>1, <2>2, <2>3
  <1>2. ASSUME NEW w \in Workers, NEW j \in Keys, Claim(w, j) PROVE Kept(k)
    BY <1>2 DEF Claim, Claimable
  <1>3. ASSUME NEW w \in Workers, Progress(w) PROVE Kept(k)
    <2>1. worker[w].key \in Keys
      BY DEF WorkerState
    <2>2. CASE MarkDelivered(w)
      BY <2>1, <2>2 DEF MarkDelivered
    <2>3. CASE ScheduleRetry(w)
      BY <2>1, <2>3 DEF ScheduleRetry
    <2>4. CASE MarkDead(w)
      BY <2>1, <2>4 DEF MarkDead, Row
    <2>5. CASE \/ HandlerReturns(w) \/ HandlerRaises(w)   \/ FindReceipt(w)
               \/ InsertReceipt(w)  \/ WriteDeadLetter(w)
      BY <2>5 DEF HandlerReturns, HandlerRaises, FindReceipt, InsertReceipt, WriteDeadLetter
    <2> QED
      BY <1>3, <2>2, <2>3, <2>4, <2>5 DEF Progress
  <1>4. ASSUME NEW w \in Workers, Crash(w) PROVE Kept(k)
    BY <1>4 DEF Crash
  <1>5. ASSUME NEW o \in Operators, Requeue(o) PROVE Kept(k)
    BY <1>5 DEF Requeue, Requeued, Row
  <1>6. ASSUME NEW o \in Operators,
               \/ \E j \in Keys : RequestReplay(o, j)
               \/ CloseDeadLetter(o) \/ OperatorCrash(o)
        PROVE  Kept(k)
    BY <1>6 DEF RequestReplay, CloseDeadLetter, OperatorCrash
  <1>7. CASE UNCHANGED vars
    BY <1>7 DEF vars
  <1> QED
    BY <1>1, <1>2, <1>3, <1>4, <1>5, <1>6, <1>7 DEF Next

LEMMA MarksStep ==
    ASSUME OutboxInv, [Next]_vars, NEW k \in Keys
    PROVE  MarksOf(k)'
  <1>0. row[k] \in Row /\ MarksOf(k) /\ row' \in [Keys -> Row]
    BY TypeStep DEF OutboxInv, RowInv, MarksOf, TypeOK
  <1>1. CASE Unmarked(k)
    BY <1>0, <1>1, KeptStep, CountsGrow
       DEF Unmarked, Kept, MarksOf, LettersOf, LettersNext, OutboxInv
  <1> USE DEF OutboxInv, TypeOK
  <1>2. ASSUME NEW j \in Keys, Emit(j) \/ LeaseRunsOut(j) \/ BackoffEnds(j) PROVE Unmarked(k)
    BY <1>0, <1>2 DEF Emit, LeaseRunsOut, BackoffEnds, Row, NewRow, Unmarked
  <1>3. ASSUME NEW w \in Workers, NEW j \in Keys, Claim(w, j) PROVE Unmarked(k)
    BY <1>0, <1>3 DEF Claim, Unmarked, Row
  <1>4. ASSUME NEW w \in Workers, MarkDelivered(w) PROVE MarksOf(k)'
    <2>1. CASE worker[w].key = k
      <3>1. row'[k].present /\ (row'[k].dead => row[k].dead)
        BY <1>0, <1>4, <2>1 DEF MarkDelivered, Finish, WorkInv, Row
      <3>2. row'[k].lease = "none"
        BY <1>0, <1>4, <2>1 DEF MarkDelivered, MarksOf, Row
      <3>3. applied'[k] > 0 /\ inbox'[k] > 0 /\ UNCHANGED letters
        BY <1>4, <2>1 DEF MarkDelivered, Finish, WorkInv
      <3> QED
        BY <1>0, <3>1, <3>2, <3>3 DEF MarksOf, LettersOf
    <2>2. CASE worker[w].key # k
      BY <1>0, <1>1, <1>4, <2>2 DEF MarkDelivered, Unmarked
    <2> QED
      BY <2>1, <2>2
  <1>5. ASSUME NEW w \in Workers, MarkDead(w) PROVE MarksOf(k)'
    <2>1. CASE worker[w].key = k
      <3>1. row'[k].present /\ row'[k].delivered = row[k].delivered /\ row'[k].lease = "none"
        BY <1>0, <1>5, <2>1 DEF MarkDead, Finish, WorkInv, Row
      <3>2. LettersOf(k) > 0 /\ UNCHANGED <<letters, applied, inbox>>
        BY <1>5, <2>1 DEF MarkDead, Finish, WorkInv
      <3> QED
        BY <1>0, <3>1, <3>2 DEF MarksOf, LettersOf
    <2>2. CASE worker[w].key # k
      BY <1>0, <1>1, <1>5, <2>2 DEF MarkDead, Unmarked
    <2> QED
      BY <2>1, <2>2
  <1>6. ASSUME NEW w \in Workers, ScheduleRetry(w) PROVE Unmarked(k)
    BY <1>0, <1>6 DEF ScheduleRetry, Unmarked, Row
  <1>7. ASSUME NEW o \in Operators, Requeue(o) PROVE Unmarked(k)
    BY <1>0, <1>7 DEF Requeue, Requeued, Unmarked, Row
  <1>8. ASSUME UNCHANGED row PROVE Unmarked(k)
    BY <1>8 DEF Unmarked
  <1>9. ASSUME NEW w \in Workers,
               \/ HandlerReturns(w) \/ HandlerRaises(w)   \/ FindReceipt(w)
               \/ InsertReceipt(w)  \/ WriteDeadLetter(w) \/ Crash(w)
        PROVE  UNCHANGED row
    BY <1>9 DEF HandlerReturns, HandlerRaises, FindReceipt, InsertReceipt,
       WriteDeadLetter, Crash
  <1>10. ASSUME NEW o \in Operators,
               \/ \E j \in Keys : RequestReplay(o, j)
               \/ CloseDeadLetter(o) \/ OperatorCrash(o)
        PROVE  UNCHANGED row
    BY <1>10 DEF RequestReplay, CloseDeadLetter, OperatorCrash
  <1>11. CASE UNCHANGED vars
    BY <1>1, <1>8, <1>11 DEF vars
  <1> QED
    BY <1>1, <1>2, <1>3, <1>4, <1>5, <1>6, <1>7, <1>8, <1>9, <1>10, <1>11 DEF Next, Progress

LEMMA OutboxStep == OutboxInv /\ [Next]_vars => OutboxInv'
  <1> SUFFICES ASSUME OutboxInv, [Next]_vars PROVE OutboxInv'
    OBVIOUS
  <1>1. TypeOK'
    BY TypeStep DEF OutboxInv
  <1>2. RowInv'
    BY MarksStep DEF RowInv, MarksOf
  <1> QED
    BY <1>1, <1>2, WorkStep DEF OutboxInv

LEMMA OutboxInvariant == Spec => []OutboxInv
  BY InitOutbox, OutboxStep, PTL DEF Spec

----------------------------------------------------------------------------
\* Every variable keeps its type, whoever crashes, claims or replays.
THEOREM TypeCorrect == Spec => []TypeOK
  <1>1. OutboxInv => TypeOK
    BY DEF OutboxInv
  <1> QED
    BY <1>1, OutboxInvariant, PTL

\* Whatever lease ran out and whoever worked on it beside, a row marked delivered was
\* applied by a handler and has its receipt.
THEOREM DeliveredAlwaysApplied == Spec => []DeliveredWasApplied
  <1>1. OutboxInv => DeliveredWasApplied
    BY DEF OutboxInv, RowInv, DeliveredWasApplied
  <1> QED
    BY <1>1, OutboxInvariant, PTL

\* A row marked dead has its forensic copy, written before the mark by a worker that
\* may have died between the two.
THEOREM DeadLettersAlwaysRecorded == Spec => []DeadLettersAreRecorded
  <1>1. OutboxInv => DeadLettersAreRecorded
    BY DEF OutboxInv, RowInv, DeadLettersAreRecorded, LettersOf
  <1> QED
    BY <1>1, OutboxInvariant, PTL

\* No claim, slow worker or replay takes back a delivery or leases its row again.
THEOREM DeliveryIsFinal == Spec => DeliveredIsFinal
  <1>1. OutboxInv /\ [Next]_vars
          => [\A k \in Keys : row[k].delivered => row'[k].delivered /\ row'[k].lease = "none"]_vars
    BY KeptStep DEF Kept
  <1> QED
    BY <1>1, OutboxInvariant, PTL DEF Spec, DeliveredIsFinal

----------------------------------------------------------------------------
(* The dataset lab: a run belongs to one process, from its gate to its description. *)

Building == {"gate", "source", "prepare", "odm", "promote", "receipt", "latest", "describe"}

ProcessForm(x) ==
    x = [plan |-> x.plan, pc |-> x.pc, run |-> x.run, fault |-> x.fault, sum |-> x.sum]

\* What a reconstruction has when it is promoted.
Reconstructed(project) ==
    /\ project \in Projects /\ project # Absent
    /\ project.images > 0 /\ project.exit = 0 /\ project.model

\* How far the files of a run are, by the step its process is at.
BuildInv(x) ==
    x.pc \in Building =>
        /\ x.run \in 1 .. runs
        /\ x.pc # "gate" => license # "none" /\ ~source.dji
        /\ x.pc \in {"gate", "source", "prepare", "odm", "promote"} =>
              output[x.run] = Absent /\ receipt[x.run] = "none"
        /\ x.pc = "odm" => quarantine[x.run] \in Projects /\ quarantine[x.run].images > 0
        /\ x.pc = "promote" => Reconstructed(quarantine[x.run])
        /\ x.pc \in {"receipt", "latest", "describe"} => Reconstructed(output[x.run])
        /\ x.pc = "receipt" => receipt[x.run] = "none"
        /\ x.pc \in {"latest", "describe"} => receipt[x.run] = "SUCCESS"

LabShape ==
    /\ source \in Source /\ content \in Tree \cup {Absent}
    /\ runs \in 0 .. MaxRuns /\ latest \in 0 .. runs
    /\ process = [p \in Processes |-> process[p]]
    /\ \A p \in Processes : ProcessForm(process[p])
    /\ quarantine = [r \in Runs |-> quarantine[r]]
    /\ output = [r \in Runs |-> output[r]]
    /\ receipt = [r \in Runs |-> receipt[r]]

OwnRuns ==
    \A p, q \in Processes :
        p # q /\ process[p].pc \in Building /\ process[q].pc \in Building =>
            process[p].run # process[q].run

FreshRuns == \A r \in Runs : r > runs => output[r] = Absent /\ receipt[r] = "none"

OutputInv(r) ==
    output[r] # Absent => Reconstructed(output[r]) /\ receipt[r] \in {"none", "SUCCESS"}

LatestInv(r) ==
    /\ Reconstructed(output[r]) /\ receipt[r] = "SUCCESS"
    /\ license # "none" /\ ~source.dji

LabInv ==
    /\ LabShape /\ OwnRuns /\ FreshRuns
    /\ \A p \in Processes : BuildInv(process[p])
    /\ \A r \in Runs : OutputInv(r)
    /\ latest # 0 => LatestInv(latest)

LEMMA LabRuns == LabAssumption => MaxRuns \in Nat
  BY DEF LabAssumption

LEMMA LatestFollows == LabAssumption /\ LabInv => LatestIsReconstructed
  BY DEF LabInv, LatestInv, OutputInv, Reconstructed, LatestIsReconstructed, Runs, LabShape

LEMMA LabInitInv == LabAssumption /\ LabInit => LabInv
  <1> SUFFICES ASSUME LabAssumption, LabInit PROVE LabInv
    OBVIOUS
  <1>1. MaxRuns \in Nat
    BY LabRuns
  <1>2. LabShape
    BY <1>1 DEF LabInit, LabShape, LabAssumption, Resting, ProcessForm
  <1>3. OwnRuns /\ FreshRuns /\ latest = 0
    BY DEF LabInit, OwnRuns, FreshRuns, Resting, Building
  <1>4. \A p \in Processes : BuildInv(process[p])
    BY DEF LabInit, BuildInv, Resting, Building
  <1>5. \A r \in Runs : OutputInv(r)
    BY DEF LabInit, OutputInv
  <1> QED
    BY <1>2, <1>3, <1>4, <1>5 DEF LabInv

\* A step of a process that builds nothing, before it or after it.
LEMMA BesideInv ==
    ASSUME LabAssumption, LabInv, NEW p \in Processes, NEW CONSTANT new,
           ProcessForm(new), new.pc \notin Building, process' = [process EXCEPT ![p] = new],
           UNCHANGED <<source, built, runs>>, content' \in Tree \cup {Absent},
           license' = license \/ license' # "none"
    PROVE  LabInv'
  <1>1. /\ \A q \in Processes : process'[q] = IF q = p THEN new ELSE process[q]
        /\ process' = [q \in Processes |-> process'[q]]
    BY DEF LabInv, LabShape
  <1>2. UNCHANGED <<source, quarantine, output, receipt, latest, runs>>
    BY DEF built
  <1>3. LabShape'
    BY <1>1, <1>2 DEF LabInv, LabShape, ProcessForm, Runs
  <1>4. OwnRuns'
    BY <1>1 DEF LabInv, OwnRuns
  <1>5. FreshRuns'
    BY <1>2 DEF LabInv, FreshRuns, Runs
  <1>6. \A q \in Processes : BuildInv(process[q])'
    <2>1. ASSUME NEW q \in Processes PROVE BuildInv(process[q])'
      <3>1. CASE q = p
        BY <1>1, <3>1 DEF BuildInv
      <3>2. CASE q # p
        BY <1>1, <1>2, <3>2 DEF LabInv, BuildInv
      <3> QED
        BY <3>1, <3>2
    <2> QED
      BY <2>1
  <1>7. \A r \in Runs : OutputInv(r)'
    BY <1>2 DEF LabInv, OutputInv, Runs
  <1>8. (latest # 0 => LatestInv(latest))'
    BY <1>2 DEF LabInv, LatestInv
  <1>9. Runs' = Runs
    BY DEF Runs
  <1> QED
    BY <1>3, <1>4, <1>5, <1>6, <1>7, <1>8, <1>9 DEF LabInv

\* A step of the process whose run is r.
LEMMA BuildStepInv ==
    ASSUME LabAssumption, LabInv, NEW p \in Processes, NEW CONSTANT new, NEW CONSTANT r,
           r \in Runs, ProcessForm(new), process' = [process EXCEPT ![p] = new],
           new.pc \in Building => new.run = r,
           UNCHANGED <<source, content, license>>,
           \/ runs' = runs /\ process[p].pc \in Building /\ r = process[p].run
           \/ runs' = runs + 1 /\ r = runs + 1,
           quarantine' = [k \in Runs |-> quarantine'[k]],
           output' = [k \in Runs |-> output'[k]],
           receipt' = [k \in Runs |-> receipt'[k]],
           \A k \in Runs : k # r => /\ quarantine'[k] = quarantine[k]
                                    /\ output'[k] = output[k] /\ receipt'[k] = receipt[k],
           latest' \in {latest, r}, latest' = r => LatestInv(r)',
           BuildInv(new)', OutputInv(r)'
    PROVE  LabInv'
  <1>0. MaxRuns \in Nat /\ runs \in 0 .. MaxRuns /\ latest \in 0 .. runs /\ r \in 1 .. MaxRuns
    BY LabRuns DEF LabInv, LabShape, Runs
  <1>1. /\ \A q \in Processes : process'[q] = IF q = p THEN new ELSE process[q]
        /\ process' = [q \in Processes |-> process'[q]]
    BY DEF LabInv, LabShape
  <1>2. runs' \in 0 .. MaxRuns /\ runs' >= runs /\ r \in 1 .. runs'
    BY <1>0 DEF LabInv, BuildInv
  <1>3. LabShape'
    <2>1. latest' \in 0 .. runs'
      BY <1>0, <1>2
    <2>2. \A q \in Processes : ProcessForm(process[q])'
      BY <1>1 DEF LabInv, LabShape, ProcessForm
    <2> QED
      BY <1>1, <1>2, <2>1, <2>2 DEF LabInv, LabShape, Runs
  <1>4. ASSUME NEW q \in Processes, q # p, process[q].pc \in Building
        PROVE  process[q].run # r /\ process[q].run \in 1 .. runs
    BY <1>0, <1>4 DEF LabInv, OwnRuns, BuildInv
  <1>5. OwnRuns'
    BY <1>1, <1>4 DEF LabInv, OwnRuns
  <1>6. FreshRuns'
    <2>1. ASSUME NEW k \in Runs, k > runs'
          PROVE  output'[k] = Absent /\ receipt'[k] = "none"
      <3>1. k \in 1 .. MaxRuns
        BY DEF Runs
      <3>2. k > runs /\ k # r
        BY <1>0, <1>2, <2>1, <3>1
      <3> QED
        BY <3>2 DEF LabInv, FreshRuns
    <2> QED
      BY <2>1 DEF FreshRuns, Runs
  <1>7. \A q \in Processes : BuildInv(process[q])'
    <2>1. ASSUME NEW q \in Processes PROVE BuildInv(process[q])'
      <3>1. CASE q = p
        BY <1>1, <3>1 DEF BuildInv
      <3>2. CASE q # p /\ process[q].pc \in Building
        <4>1. process[q].run # r /\ process[q].run \in 1 .. runs
          BY <1>4, <3>2
        <4>2. process[q].run \in Runs /\ process[q].run \in 1 .. runs'
          BY <1>0, <1>2, <4>1 DEF Runs
        <4>3. /\ quarantine'[process[q].run] = quarantine[process[q].run]
              /\ output'[process[q].run] = output[process[q].run]
              /\ receipt'[process[q].run] = receipt[process[q].run]
          BY <4>1, <4>2
        <4>4. process'[q] = process[q]
          BY <1>1, <3>2
        <4>5. BuildInv(process[q])
          BY DEF LabInv
        <4> QED
          BY <4>2, <4>3, <4>4, <4>5 DEF BuildInv
      <3>3. CASE q # p /\ process[q].pc \notin Building
        BY <1>1, <3>3 DEF BuildInv
      <3> QED
        BY <3>1, <3>2, <3>3
    <2> QED
      BY <2>1
  <1>8. \A k \in Runs : OutputInv(k)'
    <2>1. ASSUME NEW k \in Runs, k # r PROVE OutputInv(k)'
      <3>1. OutputInv(k)
        BY DEF LabInv
      <3> QED
        BY <2>1, <3>1 DEF OutputInv
    <2> QED
      BY <2>1
  <1>9. (latest # 0 => LatestInv(latest))'
    <2>1. CASE latest' = r
      BY <2>1 DEF LatestInv
    <2>2. CASE latest' = latest /\ latest # r
      <3>1. latest # 0 => latest \in Runs
        BY <1>0 DEF Runs
      <3> QED
        BY <2>2, <3>1 DEF LabInv, LatestInv
    <2> QED
      BY <2>1, <2>2
  <1>10. Runs' = Runs
    BY DEF Runs
  <1> QED
    BY <1>3, <1>5, <1>6, <1>7, <1>8, <1>9, <1>10 DEF LabInv

LEMMA EndStageForm ==
    ASSUME NEW p \in Processes, EndStage(p)
    PROVE  \E new : /\ ProcessForm(new) /\ new.pc \notin Building
                    /\ process' = [process EXCEPT ![p] = new]
  <1>1. PICK plan : plan = Tail(process[p].plan)
    OBVIOUS
  <1>2. PICK new : new = [Resting EXCEPT !.plan = plan]
    OBVIOUS
  <1>3. process' = [process EXCEPT ![p] = new]
    BY <1>1, <1>2, Zenon DEF EndStage
  <1>4. ProcessForm(new) /\ new.pc \notin Building
    BY <1>2 DEF ProcessForm, Resting, Building
  <1> QED
    BY <1>3, <1>4

LEMMA ToForm ==
    ASSUME LabInv, NEW p \in Processes, NEW CONSTANT pc, To(p, pc)
    PROVE  \E new : /\ ProcessForm(new) /\ new.pc = pc /\ new.run = process[p].run
                    /\ process' = [process EXCEPT ![p] = new]
  <1>1. PICK x : x = process[p]
    OBVIOUS
  <1>2. PICK new : new = [x EXCEPT !.pc = pc]
    OBVIOUS
  <1>3. ProcessForm(x)
    BY <1>1 DEF LabInv, LabShape
  <1>4. ProcessForm(new) /\ new.pc = pc /\ new.run = x.run
    BY <1>2, <1>3 DEF ProcessForm
  <1>5. process' = [process EXCEPT ![p] = [process[p] EXCEPT !.pc = pc]]
    BY Zenon DEF To
  <1>6. process' = [process EXCEPT ![p] = new]
    BY <1>1, <1>2, <1>5, Zenon
  <1> QED
    BY <1>1, <1>4, <1>6

LEMMA PartialIsTree == LabInv => Partial \subseteq Tree
  <1> SUFFICES ASSUME LabInv, NEW l \in {{}, source.tree.licenses},
                      NEW n \in {0, source.tree.images}
               PROVE  [source.tree EXCEPT !.licenses = l, !.images = n] \in Tree
    BY DEF Partial
  <1>1. PICK t : t = source.tree
    OBVIOUS
  <1>2. PICK li, r, im, un, lo :
           /\ t = [licenses |-> li, readmeBy |-> r, images |-> im, unsupported |-> un,
                   located |-> lo]
           /\ li \in SUBSET Markers /\ im \in Nat /\ r \in BOOLEAN
           /\ un \in BOOLEAN /\ lo \in BOOLEAN
    BY <1>1 DEF LabInv, LabShape, Source, Tree
  <1>3. [t EXCEPT !.licenses = l, !.images = n]
          = [licenses |-> l, readmeBy |-> r, images |-> n, unsupported |-> un, located |-> lo]
    <2>1. PICK u : u = [t EXCEPT !.licenses = l, !.images = n]
      OBVIOUS
    <2>2. /\ u = [licenses |-> u.licenses, readmeBy |-> u.readmeBy, images |-> u.images,
                  unsupported |-> u.unsupported, located |-> u.located]
          /\ u.licenses = l /\ u.readmeBy = r /\ u.images = n /\ u.unsupported = un
          /\ u.located = lo
      BY <1>2, <2>1
    <2> QED
      BY <2>1, <2>2
  <1>4. l \in SUBSET Markers /\ n \in Nat
    BY <1>1, <1>2
  <1> QED
    BY <1>1, <1>2, <1>3, <1>4 DEF Tree

\* The steps that build nothing: a process is called, dies, acquires or judges.
LEMMA CallInv ==
    ASSUME LabAssumption, LabInv, NEW p \in Processes, NEW plan, Call(p, plan)
    PROVE  LabInv'
  <1>1. PICK new : new = [Resting EXCEPT !.plan = plan]
    OBVIOUS
  <1>2. process[p] = Resting /\ process' = [process EXCEPT ![p].plan = plan]
    BY DEF Call
  <1>3. process' = [process EXCEPT ![p] = [process[p] EXCEPT !.plan = plan]]
    BY <1>2, Zenon
  <1>4. process' = [process EXCEPT ![p] = new]
    BY <1>1, <1>2, <1>3, Zenon
  <1>5. ProcessForm(new) /\ new.pc \notin Building
    BY <1>1 DEF ProcessForm, Resting, Building
  <1>6. UNCHANGED <<source, built, runs>> /\ content' = content /\ license' = license
    BY DEF Call, acquired, judged
  <1>7. content \in Tree \cup {Absent}
    BY DEF LabInv, LabShape
  <1> QED
    BY <1>4, <1>5, <1>6, <1>7, BesideInv

LEMMA DieInv ==
    ASSUME LabAssumption, LabInv, NEW p \in Processes, Die(p)
    PROVE  LabInv'
  <1>1. PICK new : new = Resting
    OBVIOUS
  <1>2. process' = [process EXCEPT ![p] = new]
    BY <1>1 DEF Die
  <1>3. ProcessForm(new) /\ new.pc \notin Building
    BY <1>1 DEF ProcessForm, Resting, Building
  <1>4. UNCHANGED <<source, built, runs>> /\ content' = content /\ license' = license
    BY DEF Die, acquired, judged
  <1>5. content \in Tree \cup {Absent}
    BY DEF LabInv, LabShape
  <1> QED
    BY <1>2, <1>3, <1>4, <1>5, BesideInv

LEMMA AcquireInv ==
    ASSUME LabAssumption, LabInv, NEW p \in Processes,
           \/ DryRun(p) \/ StartClone(p) \/ EndClone(p) \/ ReadHead(p) \/ Download(p)
           \/ Extract(p) \/ SwapContent(p) \/ EndAcquisition(p)
    PROVE  LabInv'
  <1>1. PICK new : /\ ProcessForm(new) /\ new.pc \notin Building
                   /\ process' = [process EXCEPT ![p] = new]
    <2>1. CASE EndStage(p)
      BY <2>1, EndStageForm
    <2>2. CASE \E pc \in {"clone", "head", "extract", "swap", "acquired"} : To(p, pc)
      BY <2>2, ToForm DEF Building
    <2>3. CASE process' = [process EXCEPT ![p].pc = "acquired", ![p].sum = content]
      <3>1. PICK x : x = process[p]
        OBVIOUS
      <3>2. PICK new : new = [x EXCEPT !.pc = "acquired", !.sum = content]
        OBVIOUS
      <3>3. ProcessForm(x)
        BY <3>1 DEF LabInv, LabShape
      <3>4. ProcessForm(new) /\ new.pc = "acquired"
        BY <3>2, <3>3 DEF ProcessForm
      <3>5. process = [q \in Processes |-> process[q]]
        BY DEF LabInv, LabShape
      <3>6. process' = [process EXCEPT ![p] = new]
        BY <2>3, <3>1, <3>2, <3>5
      <3> QED
        BY <3>4, <3>6 DEF Building
    <2>4. \/ EndStage(p)
          \/ \E pc \in {"clone", "head", "extract", "swap", "acquired"} : To(p, pc)
          \/ process' = [process EXCEPT ![p].pc = "acquired", ![p].sum = content]
      BY DEF DryRun, StartClone, EndClone, ReadHead, Download, Extract, SwapContent,
             EndAcquisition
    <2> QED
      BY <2>1, <2>2, <2>3, <2>4
  <1>2. UNCHANGED <<source, built, runs>> /\ license' = license
    BY DEF DryRun, StartClone, EndClone, ReadHead, Download, Extract, SwapContent,
           EndAcquisition, Stage, At, judged
  <1>3. content' \in Tree \cup {Absent}
    <2>1. content \in Tree \cup {Absent} /\ source.tree \in Tree
      BY DEF LabInv, LabShape, Source
    <2> QED
      BY <2>1, PartialIsTree
      DEF DryRun, StartClone, EndClone, ReadHead, Download, Extract, SwapContent,
          EndAcquisition
  <1> QED
    BY <1>1, <1>2, <1>3, BesideInv

LEMMA JudgeInv ==
    ASSUME LabAssumption, LabInv, NEW p \in Processes,
           CheckLicense(p) \/ TakeInventory(p) \/ BuildCandidate(p)
    PROVE  LabInv'
  <1>1. PICK new : /\ ProcessForm(new) /\ new.pc \notin Building
                   /\ process' = [process EXCEPT ![p] = new]
    BY EndStageForm DEF CheckLicense, TakeInventory, BuildCandidate
  <1>2. UNCHANGED <<source, built, runs>> /\ content' = content
    BY DEF CheckLicense, TakeInventory, BuildCandidate, Stage, At, acquired
  <1>3. license' = license \/ license' # "none"
    BY DEF CheckLicense, TakeInventory, BuildCandidate, LicenseOf
  <1>4. content \in Tree \cup {Absent}
    BY DEF LabInv, LabShape
  <1> QED
    BY <1>1, <1>2, <1>3, <1>4, BesideInv

\* The steps of a reconstruction.
LEMMA OwnRun ==
    ASSUME LabAssumption, LabInv, NEW p \in Processes, process[p].pc \in Building
    PROVE  /\ process[p].run \in Runs /\ process[p].run \in 1 .. runs
           /\ BuildInv(process[p])
  BY LabRuns DEF LabInv, LabShape, BuildInv, Runs

LEMMA RefuseInv ==
    ASSUME LabAssumption, LabInv, NEW p \in Processes, NEW CONSTANT r, r \in Runs,
           NEW status, Refuse(p, r, status), UNCHANGED source,
           \/ runs' = runs /\ process[p].pc \in Building /\ r = process[p].run
           \/ runs' = runs + 1 /\ r = runs + 1,
           quarantine' = [k \in Runs |-> quarantine'[k]],
           \A k \in Runs : k # r => quarantine'[k] = quarantine[k],
           output[r] = Absent
    PROVE  LabInv'
  <1>1. PICK new : /\ ProcessForm(new) /\ new.pc \notin Building
                   /\ process' = [process EXCEPT ![p] = new]
    BY EndStageForm DEF Refuse
  <1>2. /\ receipt' = [receipt EXCEPT ![r] = status]
        /\ UNCHANGED <<content, license, output, latest>>
    BY DEF Refuse, acquired, judged
  <1>3. /\ receipt' = [k \in Runs |-> receipt'[k]]
        /\ \A k \in Runs : k # r => receipt'[k] = receipt[k]
    BY <1>2 DEF LabInv, LabShape
  <1>4. output' = [k \in Runs |-> output'[k]] /\ output'[r] = Absent
    BY <1>2 DEF LabInv, LabShape
  <1>5. BuildInv(new)'
    BY <1>1 DEF BuildInv
  <1>6. OutputInv(r)'
    BY <1>4 DEF OutputInv
  <1>7. latest' # r
    BY <1>2 DEF LabInv, LatestInv, Reconstructed, Runs
  <1> QED
    BY <1>1, <1>2, <1>3, <1>4, <1>5, <1>6, <1>7, BuildStepInv

LEMMA BeginRunInv ==
    ASSUME LabAssumption, LabInv, NEW p \in Processes, NEW fault, NEW odm,
           BeginRun(p, fault, odm)
    PROVE  LabInv'
  <1>1. PICK r : r = runs + 1
    OBVIOUS
  <1>2. /\ runs' = r /\ runs < MaxRuns /\ UNCHANGED <<source, quarantine>>
        /\ process[p].pc = "idle"
    BY <1>1 DEF BeginRun, Stage, At
  <1>3. r \in Runs /\ output[r] = Absent /\ receipt[r] = "none"
    BY <1>1, <1>2, LabRuns DEF LabInv, LabShape, FreshRuns, Runs
  <1>4. quarantine' = [k \in Runs |-> quarantine'[k]]
    BY <1>2 DEF LabInv, LabShape
  <1>5. CASE \E status : Refuse(p, r, status)
    BY <1>1, <1>2, <1>3, <1>4, <1>5, RefuseInv
  <1>6. CASE /\ process' = [process EXCEPT ![p].pc = "gate", ![p].run = runs', ![p].fault = fault]
             /\ UNCHANGED <<acquired, judged, output, receipt, latest>>
    <2>1. PICK x : x = process[p]
      OBVIOUS
    <2>2. PICK new : new = [x EXCEPT !.pc = "gate", !.run = r, !.fault = fault]
      OBVIOUS
    <2>3. ProcessForm(x)
      BY <2>1 DEF LabInv, LabShape
    <2>4. ProcessForm(new) /\ new.pc = "gate" /\ new.run = r
      BY <2>2, <2>3 DEF ProcessForm
    <2>5. process = [q \in Processes |-> process[q]]
      BY DEF LabInv, LabShape
    <2>6. process' = [process EXCEPT ![p] = new]
      BY <1>2, <1>6, <2>1, <2>2, <2>5
    <2>7. UNCHANGED <<content, license, output, receipt, latest>>
      BY <1>6 DEF acquired, judged
    <2>8. /\ output' = [k \in Runs |-> output'[k]] /\ receipt' = [k \in Runs |-> receipt'[k]]
      BY <2>7 DEF LabInv, LabShape
    <2>9. r \in 1 .. runs'
      BY <1>2, <1>3 DEF Runs
    <2>10. BuildInv(new)'
      BY <1>3, <2>4, <2>7, <2>9 DEF BuildInv
    <2>11. OutputInv(r)'
      BY <1>3, <2>7 DEF OutputInv
    <2>12. latest' # r
      BY <1>3, <2>7 DEF LabInv, LatestInv, Reconstructed, Runs
    <2> QED
      BY <1>1, <1>2, <1>3, <1>4, <2>4, <2>6, <2>7, <2>8, <2>10, <2>11, <2>12, BuildStepInv
  <1>7. \/ \E status : Refuse(p, r, status)
        \/ /\ process' = [process EXCEPT ![p].pc = "gate", ![p].run = runs', ![p].fault = fault]
           /\ UNCHANGED <<acquired, judged, output, receipt, latest>>
    BY <1>2 DEF BeginRun
  <1> QED
    BY <1>5, <1>6, <1>7

\* A step that moves its process on and leaves the outputs and receipts alone.
LEMMA MoveInv ==
    ASSUME LabAssumption, LabInv, NEW p \in Processes, NEW CONSTANT pc, To(p, pc),
           process[p].pc \in {"gate", "source", "prepare", "odm"},
           UNCHANGED <<source, content, license, output, receipt, latest, runs>>,
           quarantine' = [k \in Runs |-> quarantine'[k]],
           \A k \in Runs : k # process[p].run => quarantine'[k] = quarantine[k],
           \/ pc \in {"source", "prepare"}
           \/ pc = "odm" /\ quarantine'[process[p].run] \in Projects
                         /\ quarantine'[process[p].run].images > 0
           \/ pc = "promote" /\ Reconstructed(quarantine'[process[p].run]),
           license # "none" /\ ~source.dji
    PROVE  LabInv'
  <1>1. PICK r : r = process[p].run
    OBVIOUS
  <1>2. r \in Runs /\ r \in 1 .. runs /\ output[r] = Absent /\ receipt[r] = "none"
    BY <1>1, OwnRun DEF Building, BuildInv
  <1>3. PICK new : /\ ProcessForm(new) /\ new.pc = pc /\ new.run = r
                   /\ process' = [process EXCEPT ![p] = new]
    BY <1>1, ToForm
  <1>4. /\ output' = [k \in Runs |-> output'[k]] /\ receipt' = [k \in Runs |-> receipt'[k]]
    BY DEF LabInv, LabShape
  <1>5. BuildInv(new)'
    BY <1>1, <1>2, <1>3 DEF BuildInv, Reconstructed
  <1>6. OutputInv(r)'
    BY <1>2 DEF OutputInv
  <1>7. latest' # r
    BY <1>2 DEF LabInv, LatestInv, Reconstructed, Runs
  <1>8. process[p].pc \in Building
    BY DEF Building
  <1> QED
    BY <1>1, <1>2, <1>3, <1>4, <1>5, <1>6, <1>7, <1>8, BuildStepInv

LEMMA PassGateInv ==
    ASSUME LabAssumption, LabInv, NEW p \in Processes, PassGate(p)
    PROVE  LabInv'
  <1>1. process[p].pc = "gate" /\ UNCHANGED <<source, quarantine, runs>>
    BY DEF PassGate, At
  <1>2. PICK r : r = process[p].run
    OBVIOUS
  <1>3. r \in Runs /\ output[r] = Absent /\ process[p].pc \in Building
    BY <1>1, <1>2, OwnRun DEF Building, BuildInv
  <1>4. quarantine' = [k \in Runs |-> quarantine'[k]]
    BY <1>1 DEF LabInv, LabShape
  <1>5. CASE \E status : Refuse(p, r, status)
    BY <1>1, <1>2, <1>3, <1>4, <1>5, RefuseInv
  <1>6. CASE /\ Judged /\ ~source.dji /\ To(p, "source")
             /\ UNCHANGED <<acquired, judged, output, receipt, latest>>
    BY <1>1, <1>4, <1>6, MoveInv DEF acquired, judged, Judged
  <1> QED
    BY <1>2, <1>5, <1>6 DEF PassGate

LEMMA VerifySourceInv ==
    ASSUME LabAssumption, LabInv, NEW p \in Processes, NEW full, VerifySource(p, full)
    PROVE  LabInv'
  <1>1. process[p].pc = "source" /\ UNCHANGED <<source, quarantine, runs>>
    BY DEF VerifySource, At
  <1>2. PICK r : r = process[p].run
    OBVIOUS
  <1>3. /\ r \in Runs /\ output[r] = Absent /\ process[p].pc \in Building
        /\ license # "none" /\ ~source.dji
    BY <1>1, <1>2, OwnRun DEF Building, BuildInv
  <1>4. quarantine' = [k \in Runs |-> quarantine'[k]]
    BY <1>1 DEF LabInv, LabShape
  <1>5. CASE \E status : Refuse(p, r, status)
    BY <1>1, <1>2, <1>3, <1>4, <1>5, RefuseInv
  <1>6. CASE /\ To(p, "prepare")
             /\ UNCHANGED <<acquired, judged, output, receipt, latest>>
    BY <1>1, <1>3, <1>4, <1>6, MoveInv DEF acquired, judged
  <1> QED
    BY <1>2, <1>5, <1>6 DEF VerifySource

LEMMA PrepareInv ==
    ASSUME LabAssumption, LabInv, NEW p \in Processes, Prepare(p)
    PROVE  LabInv'
  <1>1. process[p].pc = "prepare" /\ UNCHANGED <<source, runs>>
    BY DEF Prepare, At
  <1>2. PICK r : r = process[p].run
    OBVIOUS
  <1>3. /\ r \in Runs /\ output[r] = Absent /\ process[p].pc \in Building
        /\ license # "none" /\ ~source.dji
    BY <1>1, <1>2, OwnRun DEF Building, BuildInv
  <1>4. PICK images : images = IF content = Absent THEN 0 ELSE content.images
    OBVIOUS
  <1>5. images \in Nat
    BY <1>4 DEF LabInv, LabShape, Tree
  <1>6. PICK project : project = Project(images)
    OBVIOUS
  <1>7. project \in Projects /\ project.images = images
    BY <1>5, <1>6 DEF Project, Projects
  <1>8. /\ quarantine' = [quarantine EXCEPT ![r] = project]
        /\ IF images = 0 THEN Refuse(p, r, "FAILED")
           ELSE To(p, "odm") /\ UNCHANGED <<acquired, judged, output, receipt, latest>>
    BY <1>2, <1>4, <1>6 DEF Prepare
  <1>9. /\ quarantine' = [k \in Runs |-> quarantine'[k]] /\ quarantine'[r] = project
        /\ \A k \in Runs : k # r => quarantine'[k] = quarantine[k]
    BY <1>3, <1>8 DEF LabInv, LabShape
  <1>10. CASE Refuse(p, r, "FAILED")
    BY <1>1, <1>2, <1>3, <1>9, <1>10, RefuseInv
  <1>11. CASE /\ images # 0 /\ To(p, "odm")
              /\ UNCHANGED <<acquired, judged, output, receipt, latest>>
    <2>1. UNCHANGED <<source, content, license, output, receipt, latest, runs>>
      BY <1>1, <1>11 DEF acquired, judged
    <2>2. quarantine'[process[p].run] \in Projects /\ quarantine'[process[p].run].images > 0
      BY <1>2, <1>5, <1>7, <1>9, <1>11
    <2> QED
      BY <1>1, <1>2, <1>3, <1>9, <1>11, <2>1, <2>2, MoveInv
  <1> QED
    BY <1>8, <1>10, <1>11

LEMMA RunOdmInv ==
    ASSUME LabAssumption, LabInv, NEW p \in Processes, NEW exit \in 0 .. 1,
           NEW model \in BOOLEAN, NEW late \in BOOLEAN, RunOdm(p, exit, model, late)
    PROVE  LabInv'
  <1>1. process[p].pc = "odm" /\ UNCHANGED <<source, runs>>
    BY DEF RunOdm, At
  <1>2. PICK r : r = process[p].run
    OBVIOUS
  <1>3. /\ r \in Runs /\ output[r] = Absent /\ process[p].pc \in Building
        /\ license # "none" /\ ~source.dji
        /\ quarantine[r] \in Projects /\ quarantine[r].images > 0
    BY <1>1, <1>2, OwnRun DEF Building, BuildInv
  <1>4. PICK old : old = quarantine[r]
    OBVIOUS
  <1>5. PICK project : project = [old EXCEPT !.exit = exit, !.model = model]
    OBVIOUS
  <1>6. /\ project \in Projects /\ project.images = old.images
        /\ project.exit = exit /\ project.model = model
    BY <1>3, <1>4, <1>5 DEF Projects
  <1>7. quarantine' = [quarantine EXCEPT ![r].exit = exit, ![r].model = model]
    BY <1>2 DEF RunOdm
  <1>8. quarantine = [k \in Runs |-> quarantine[k]]
    BY DEF LabInv, LabShape
  <1>9. quarantine' = [quarantine EXCEPT ![r] = project]
    BY <1>3, <1>4, <1>5, <1>7, <1>8
  <1>10. /\ quarantine' = [k \in Runs |-> quarantine'[k]] /\ quarantine'[r] = project
         /\ \A k \in Runs : k # r => quarantine'[k] = quarantine[k]
    BY <1>3, <1>8, <1>9
  <1>11. CASE Refuse(p, r, "FAILED")
    BY <1>1, <1>2, <1>3, <1>10, <1>11, RefuseInv
  <1>12. CASE /\ Succeeded(exit, model) /\ To(p, "promote")
              /\ UNCHANGED <<acquired, judged, output, receipt, latest>>
    <2>1. UNCHANGED <<source, content, license, output, receipt, latest, runs>>
      BY <1>1, <1>12 DEF acquired, judged
    <2>2. Reconstructed(quarantine'[process[p].run])
      <3>1. exit = 0 /\ model
        BY <1>12 DEF Succeeded
      <3>2. project # Absent
        BY <1>6 DEF LabAssumption
      <3> QED
        BY <1>2, <1>3, <1>4, <1>6, <1>10, <3>1, <3>2 DEF Reconstructed
    <2> QED
      BY <1>1, <1>2, <1>3, <1>10, <1>12, <2>1, <2>2, MoveInv
  <1> QED
    BY <1>2, <1>11, <1>12 DEF RunOdm

LEMMA PromoteInv ==
    ASSUME LabAssumption, LabInv, NEW p \in Processes, Promote(p)
    PROVE  LabInv'
  <1>1. /\ process[p].pc = "promote" /\ To(p, "receipt")
        /\ UNCHANGED <<source, content, license, receipt, latest, runs>>
    BY DEF Promote, At, acquired, judged
  <1>2. PICK r : r = process[p].run
    OBVIOUS
  <1>3. /\ r \in Runs /\ r \in 1 .. runs /\ process[p].pc \in Building
        /\ license # "none" /\ ~source.dji
        /\ output[r] = Absent /\ receipt[r] = "none" /\ Reconstructed(quarantine[r])
    BY <1>1, <1>2, OwnRun DEF Building, BuildInv
  <1>4. /\ output' = [output EXCEPT ![r] = quarantine[r]]
        /\ quarantine' = [quarantine EXCEPT ![r] = Absent]
    BY <1>2 DEF Promote
  <1>5. /\ quarantine' = [k \in Runs |-> quarantine'[k]]
        /\ output' = [k \in Runs |-> output'[k]] /\ output'[r] = quarantine[r]
        /\ receipt' = [k \in Runs |-> receipt'[k]]
        /\ \A k \in Runs : k # r => quarantine'[k] = quarantine[k] /\ output'[k] = output[k]
    BY <1>1, <1>3, <1>4 DEF LabInv, LabShape
  <1>6. PICK new : /\ ProcessForm(new) /\ new.pc = "receipt" /\ new.run = r
                   /\ process' = [process EXCEPT ![p] = new]
    BY <1>1, <1>2, ToForm
  <1>7. Reconstructed(output'[r])
    BY <1>3, <1>5
  <1>8. BuildInv(new)'
    BY <1>1, <1>3, <1>6, <1>7 DEF BuildInv, Reconstructed
  <1>9. OutputInv(r)'
    BY <1>1, <1>3, <1>7 DEF OutputInv, Reconstructed
  <1>10. latest' # r
    BY <1>1, <1>3 DEF LabInv, LatestInv, Reconstructed, Runs
  <1> QED
    BY <1>1, <1>2, <1>3, <1>5, <1>6, <1>8, <1>9, <1>10, BuildStepInv

LEMMA SaveReceiptInv ==
    ASSUME LabAssumption, LabInv, NEW p \in Processes, SaveReceipt(p)
    PROVE  LabInv'
  <1>1. /\ process[p].pc = "receipt" /\ To(p, "latest")
        /\ UNCHANGED <<source, content, license, quarantine, output, latest, runs>>
    BY DEF SaveReceipt, At, acquired, judged
  <1>2. PICK r : r = process[p].run
    OBVIOUS
  <1>3. /\ r \in Runs /\ r \in 1 .. runs /\ process[p].pc \in Building
        /\ license # "none" /\ ~source.dji
        /\ receipt[r] = "none" /\ Reconstructed(output[r])
    BY <1>1, <1>2, OwnRun DEF Building, BuildInv
  <1>4. receipt' = [receipt EXCEPT ![r] = "SUCCESS"]
    BY <1>2 DEF SaveReceipt
  <1>5. /\ quarantine' = [k \in Runs |-> quarantine'[k]]
        /\ output' = [k \in Runs |-> output'[k]]
        /\ receipt' = [k \in Runs |-> receipt'[k]] /\ receipt'[r] = "SUCCESS"
        /\ \A k \in Runs : k # r => receipt'[k] = receipt[k]
    BY <1>1, <1>3, <1>4 DEF LabInv, LabShape
  <1>6. PICK new : /\ ProcessForm(new) /\ new.pc = "latest" /\ new.run = r
                   /\ process' = [process EXCEPT ![p] = new]
    BY <1>1, <1>2, ToForm
  <1>7. BuildInv(new)'
    BY <1>1, <1>3, <1>5, <1>6 DEF BuildInv, Reconstructed
  <1>8. OutputInv(r)'
    BY <1>1, <1>3, <1>5 DEF OutputInv, Reconstructed
  <1>9. latest' # r
    BY <1>1, <1>3 DEF LabInv, LatestInv, Runs
  <1> QED
    BY <1>1, <1>2, <1>3, <1>5, <1>6, <1>7, <1>8, <1>9, BuildStepInv

LEMMA SaveLatestInv ==
    ASSUME LabAssumption, LabInv, NEW p \in Processes, SaveLatest(p)
    PROVE  LabInv'
  <1>1. /\ process[p].pc = "latest" /\ To(p, "describe")
        /\ UNCHANGED <<source, content, license, quarantine, output, receipt, runs>>
    BY DEF SaveLatest, At, acquired, judged
  <1>2. PICK r : r = process[p].run
    OBVIOUS
  <1>3. /\ r \in Runs /\ r \in 1 .. runs /\ process[p].pc \in Building
        /\ license # "none" /\ ~source.dji
        /\ receipt[r] = "SUCCESS" /\ Reconstructed(output[r])
    BY <1>1, <1>2, OwnRun DEF Building, BuildInv
  <1>4. latest' = r
    BY <1>2 DEF SaveLatest
  <1>5. /\ quarantine' = [k \in Runs |-> quarantine'[k]]
        /\ output' = [k \in Runs |-> output'[k]]
        /\ receipt' = [k \in Runs |-> receipt'[k]]
    BY <1>1 DEF LabInv, LabShape
  <1>6. PICK new : /\ ProcessForm(new) /\ new.pc = "describe" /\ new.run = r
                   /\ process' = [process EXCEPT ![p] = new]
    BY <1>1, <1>2, ToForm
  <1>7. BuildInv(new)'
    BY <1>1, <1>3, <1>6 DEF BuildInv, Reconstructed
  <1>8. OutputInv(r)'
    BY <1>1, <1>3 DEF OutputInv, Reconstructed
  <1>9. LatestInv(r)'
    BY <1>1, <1>3 DEF LatestInv, Reconstructed
  <1> QED
    BY <1>1, <1>2, <1>3, <1>4, <1>5, <1>6, <1>7, <1>8, <1>9, BuildStepInv

LEMMA DescribeInv ==
    ASSUME LabAssumption, LabInv, NEW p \in Processes, Describe(p)
    PROVE  LabInv'
  <1>1. /\ process[p].pc = "describe" /\ EndStage(p)
        /\ UNCHANGED <<source, content, license, quarantine, receipt, latest, runs>>
    BY DEF Describe, At, acquired, judged
  <1>2. PICK r : r = process[p].run
    OBVIOUS
  <1>3. /\ r \in Runs /\ r \in 1 .. runs /\ process[p].pc \in Building
        /\ license # "none" /\ ~source.dji
        /\ receipt[r] = "SUCCESS" /\ Reconstructed(output[r])
    BY <1>1, <1>2, OwnRun DEF Building, BuildInv
  <1>4. PICK old : old = output[r]
    OBVIOUS
  <1>5. PICK project : project = [old EXCEPT !.described = TRUE]
    OBVIOUS
  <1>6. Reconstructed(project)
    <2>1. project \in Projects
      BY <1>3, <1>4, <1>5 DEF Reconstructed, Projects
    <2>2. /\ project.images = old.images /\ project.exit = old.exit
          /\ project.model = old.model
      BY <1>3, <1>4, <1>5 DEF Reconstructed, Projects
    <2>3. project # Absent
      BY <2>1 DEF LabAssumption
    <2> QED
      BY <1>3, <1>4, <2>1, <2>2, <2>3 DEF Reconstructed
  <1>7. output' = [output EXCEPT ![r].described = TRUE]
    BY <1>2 DEF Describe
  <1>8. output' = [output EXCEPT ![r] = project]
    BY <1>4, <1>5, <1>7, Zenon
  <1>9. /\ quarantine' = [k \in Runs |-> quarantine'[k]]
        /\ output' = [k \in Runs |-> output'[k]] /\ output'[r] = project
        /\ receipt' = [k \in Runs |-> receipt'[k]]
        /\ \A k \in Runs : k # r => output'[k] = output[k]
    BY <1>1, <1>3, <1>8 DEF LabInv, LabShape
  <1>10. PICK new : /\ ProcessForm(new) /\ new.pc \notin Building
                    /\ process' = [process EXCEPT ![p] = new]
    BY <1>1, EndStageForm
  <1>11. BuildInv(new)'
    BY <1>10 DEF BuildInv
  <1>12. OutputInv(r)' /\ LatestInv(r)'
    BY <1>1, <1>3, <1>6, <1>9 DEF OutputInv, LatestInv, Reconstructed
  <1> QED
    BY <1>1, <1>2, <1>3, <1>9, <1>10, <1>11, <1>12, BuildStepInv

LEMMA LabStep == LabAssumption /\ LabInv /\ [LabNext]_labVars => LabInv'
  <1> SUFFICES ASSUME LabAssumption, LabInv, [LabNext]_labVars PROVE LabInv'
    OBVIOUS
  <1>1. CASE UNCHANGED labVars
    BY <1>1 DEF labVars, acquired, judged, built, LabInv, LabShape, OwnRuns, FreshRuns,
                BuildInv, OutputInv, LatestInv, Reconstructed, ProcessForm, Runs
  <1>2. ASSUME NEW p \in Processes,
               \/ \E plan \in Plans : Call(p, plan)
               \/ Die(p)
        PROVE  LabInv'
    BY <1>2, CallInv, DieInv
  <1>3. ASSUME NEW p \in Processes,
               \/ DryRun(p) \/ StartClone(p) \/ EndClone(p) \/ ReadHead(p) \/ Download(p)
               \/ Extract(p) \/ SwapContent(p) \/ EndAcquisition(p)
        PROVE  LabInv'
    BY <1>3, AcquireInv
  <1>4. ASSUME NEW p \in Processes,
               CheckLicense(p) \/ TakeInventory(p) \/ BuildCandidate(p)
        PROVE  LabInv'
    BY <1>4, JudgeInv
  <1>5. ASSUME NEW p \in Processes,
               \/ \E fault \in Faults, odm \in BOOLEAN : BeginRun(p, fault, odm)
               \/ PassGate(p)
               \/ \E full \in BOOLEAN : VerifySource(p, full)
               \/ Prepare(p)
               \/ \E exit \in 0 .. 1, model, late \in BOOLEAN : RunOdm(p, exit, model, late)
               \/ Promote(p) \/ SaveReceipt(p) \/ SaveLatest(p) \/ Describe(p)
        PROVE  LabInv'
    BY <1>5, BeginRunInv, PassGateInv, VerifySourceInv, PrepareInv, RunOdmInv, PromoteInv,
       SaveReceiptInv, SaveLatestInv, DescribeInv
  <1> QED
    BY <1>1, <1>2, <1>3, <1>4, <1>5 DEF LabNext

\* reconstruction_latest.json names a run promoted from images with an exit code of zero and
\* a model, of a data set with a judged license, whatever number of processes work beside
\* each other and wherever they die; no project of a run that failed is among the promoted.
THEOREM LatestAlwaysReconstructed == LabSpec => []LatestIsReconstructed
  <1>1. LabInit => LabInv
    BY LabInitInv, LabAssumption
  <1>2. LabInv /\ [LabNext]_labVars => LabInv'
    BY LabStep, LabAssumption
  <1>3. LabInv => LatestIsReconstructed
    BY LatestFollows, LabAssumption
  <1> QED
    BY <1>1, <1>2, <1>3, PTL DEF LabSpec

----------------------------------------------------------------------------
(* Sealing: chains are sequences of entries of any kind. *)

LEMMA RemoveBasics ==
    ASSUME NEW s, IsSeq(s), NEW i \in DOMAIN s
    PROVE  /\ IsSeq(RemoveAt(s, i)) /\ Len(RemoveAt(s, i)) = Len(s) - 1
           /\ \A k \in 1 .. Len(s) - 1 :
                 RemoveAt(s, i)[k] = IF k < i THEN s[k] ELSE s[k + 1]
  <1>1. PICK S : s \in Seq(S)
    BY DEF IsSeq
  <1>2. i \in 1 .. Len(s) /\ Len(s) \in Nat
    BY <1>1
  <1>3. PICK a : a = SubSeq(s, 1, i - 1)
    OBVIOUS
  <1>4. PICK b : b = SubSeq(s, i + 1, Len(s))
    OBVIOUS
  <1>5. a \in Seq(S) /\ Len(a) = i - 1 /\ \A k \in 1 .. i - 1 : a[k] = s[k]
    BY <1>1, <1>2, <1>3
  <1>6. b \in Seq(S) /\ Len(b) = Len(s) - i /\ \A k \in 1 .. Len(s) - i : b[k] = s[k + i]
    BY <1>1, <1>2, <1>4
  <1>7. RemoveAt(s, i) = a \o b
    BY <1>3, <1>4 DEF RemoveAt
  <1>8. PICK t : t = a \o b
    OBVIOUS
  <1>9. /\ t \in Seq(S) /\ Len(t) = Len(s) - 1
        /\ \A k \in 1 .. Len(s) - 1 : t[k] = IF k <= i - 1 THEN a[k] ELSE b[k - (i - 1)]
    <2>1. /\ t \in Seq(S) /\ Len(t) = Len(a) + Len(b)
          /\ \A k \in 1 .. Len(a) + Len(b) : t[k] = IF k <= Len(a) THEN a[k] ELSE b[k - Len(a)]
      BY <1>5, <1>6, <1>8, ConcatProperties
    <2>2. Len(a) + Len(b) = Len(s) - 1
      BY <1>2, <1>5, <1>6
    <2> QED
      BY <1>5, <2>1, <2>2
  <1>10. ASSUME NEW k \in 1 .. Len(s) - 1
         PROVE  t[k] = IF k < i THEN s[k] ELSE s[k + 1]
    <2>1. CASE k < i
      <3>1. k \in 1 .. i - 1 /\ k <= i - 1
        BY <1>2, <2>1
      <3>2. t[k] = a[k] /\ a[k] = s[k]
        BY <1>5, <1>9, <3>1
      <3> QED
        BY <2>1, <3>2
    <2>2. CASE ~(k < i)
      <3>1. k - (i - 1) \in 1 .. Len(s) - i /\ k - (i - 1) + i = k + 1 /\ ~(k <= i - 1)
        BY <1>2, <2>2
      <3>2. b[k - (i - 1)] = s[k + 1]
        BY <1>6, <3>1
      <3> QED
        BY <1>9, <2>2, <3>1, <3>2
    <2> QED
      BY <2>1, <2>2
  <1> QED
    BY <1>7, <1>8, <1>9, <1>10 DEF IsSeq

LEMMA RepeatBasics ==
    ASSUME NEW s, IsSeq(s), NEW i \in DOMAIN s
    PROVE  LET t == InsertAt(s, i, s[i]) IN
           /\ IsSeq(t) /\ Len(t) = Len(s) + 1
           /\ \A k \in 1 .. Len(s) + 1 : t[k] = IF k <= i THEN s[k] ELSE s[k - 1]
  <1>1. PICK S : s \in Seq(S)
    BY DEF IsSeq
  <1>2. i \in 1 .. Len(s) /\ Len(s) \in Nat /\ s[i] \in S
    BY <1>1
  <1>3. PICK a : a = SubSeq(s, 1, i - 1)
    OBVIOUS
  <1>4. PICK b : b = SubSeq(s, i, Len(s))
    OBVIOUS
  <1>5. PICK m : m = <<s[i]>>
    OBVIOUS
  <1>6. a \in Seq(S) /\ Len(a) = i - 1 /\ \A k \in 1 .. i - 1 : a[k] = s[k]
    BY <1>1, <1>2, <1>3
  <1>7. /\ b \in Seq(S) /\ Len(b) = Len(s) - i + 1
        /\ \A k \in 1 .. Len(s) - i + 1 : b[k] = s[k + i - 1]
    BY <1>1, <1>2, <1>4
  <1>8. m \in Seq(S) /\ Len(m) = 1 /\ m[1] = s[i]
    BY <1>2, <1>5
  <1>9. PICK c : c = a \o m
    OBVIOUS
  <1>10. c \in Seq(S) /\ Len(c) = i /\ \A k \in 1 .. i : c[k] = s[k]
    <2>1. /\ c \in Seq(S) /\ Len(c) = Len(a) + Len(m)
          /\ \A k \in 1 .. Len(a) + Len(m) : c[k] = IF k <= Len(a) THEN a[k] ELSE m[k - Len(a)]
      BY <1>6, <1>8, <1>9, ConcatProperties
    <2>2. Len(a) + Len(m) = i
      BY <1>2, <1>6, <1>8
    <2>3. ASSUME NEW k \in 1 .. i
          PROVE  c[k] = s[k]
      <3>1. c[k] = IF k <= i - 1 THEN a[k] ELSE m[k - (i - 1)]
        BY <1>6, <2>1, <2>2
      <3>2. CASE k <= i - 1
        <4>1. k \in 1 .. i - 1
          BY <1>2, <3>2
        <4> QED
          BY <1>6, <3>1, <3>2, <4>1
      <3>3. CASE ~(k <= i - 1)
        <4>1. k = i /\ k - (i - 1) = 1
          BY <1>2, <3>3
        <4> QED
          BY <1>8, <3>1, <3>3, <4>1
      <3> QED
        BY <3>2, <3>3
    <2> QED
      BY <2>1, <2>2, <2>3
  <1>11. InsertAt(s, i, s[i]) = c \o b
    BY <1>3, <1>4, <1>5, <1>9 DEF InsertAt
  <1>12. PICK t : t = c \o b
    OBVIOUS
  <1>13. /\ t \in Seq(S) /\ Len(t) = Len(s) + 1
         /\ \A k \in 1 .. Len(s) + 1 : t[k] = IF k <= i THEN c[k] ELSE b[k - i]
    <2>1. /\ t \in Seq(S) /\ Len(t) = Len(c) + Len(b)
          /\ \A k \in 1 .. Len(c) + Len(b) : t[k] = IF k <= Len(c) THEN c[k] ELSE b[k - Len(c)]
      BY <1>7, <1>10, <1>12, ConcatProperties
    <2>2. Len(c) + Len(b) = Len(s) + 1
      BY <1>2, <1>7, <1>10
    <2> QED
      BY <1>10, <2>1, <2>2
  <1>14. ASSUME NEW k \in 1 .. Len(s) + 1
         PROVE  t[k] = IF k <= i THEN s[k] ELSE s[k - 1]
    <2>1. CASE k <= i
      <3>1. k \in 1 .. i
        BY <1>2, <2>1
      <3> QED
        BY <1>10, <1>13, <2>1, <3>1
    <2>2. CASE ~(k <= i)
      <3>1. k - i \in 1 .. Len(s) - i + 1 /\ k - i + i - 1 = k - 1
        BY <1>2, <2>2
      <3>2. b[k - i] = s[k - 1]
        BY <1>7, <3>1
      <3> QED
        BY <1>13, <2>2, <3>2
    <2> QED
      BY <2>1, <2>2
  <1> QED
    BY <1>11, <1>12, <1>13, <1>14 DEF IsSeq

----------------------------------------------------------------------------
(* What is hashed, and what is signed, can be read back. *)
LEMMA ContentInjective ==
    ASSUME NEW d, NEW e, ContentHash(d) = ContentHash(e)
    PROVE  d.seq = e.seq /\ d.payload = e.payload /\ d.prior = e.prior
  BY DEF ContentHash

LEMMA SealBodyInjective ==
    ASSUME NEW d, NEW e, SealBody(d) = SealBody(e)
    PROVE  d.revision = e.revision
  BY DEF SealBody

EntryForm(e) ==
    e = [seq |-> e.seq, payload |-> e.payload, prior |-> e.prior, revision |-> e.revision,
         hash |-> e.hash, seal |-> e.seal]

HashBefore(j) == IF j = 1 THEN <<>> ELSE written[j - 1].hash

\* An entry as append_entry wrote it.
AsWritten(j) ==
    /\ EntryForm(written[j])
    /\ written[j].seq = j /\ written[j].payload = "written" /\ written[j].revision = j
    /\ written[j].prior = HashBefore(j) /\ written[j].hash = ContentHash(written[j])
    /\ written[j].seal # NoSeal =>
          /\ written[j].seal.version \in KeyVersions /\ written[j].seal.key \in KeyMaterials
          /\ written[j].seal.over = SealBody(written[j])

\* No fault of the store touches an entry's hash, and none makes a seal.
FromWritten(e) ==
    /\ EntryForm(e) /\ e.seq \in 1 .. Len(written)
    /\ e.hash = written[e.seq].hash /\ e.seal \in {written[e.seq].seal, NoSeal}

WrittenInv == IsSeq(written) /\ \A j \in 1 .. Len(written) : AsWritten(j)

\* Entries are lost and repeated, but stay in their order.
ChainInv ==
    /\ IsSeq(chain) /\ \A i \in 1 .. Len(chain) : FromWritten(chain[i])
    /\ \A i, k \in 1 .. Len(chain) : i <= k => chain[i].seq <= chain[k].seq

UndamagedInv ==
    /\ damages \in Nat
    /\ damages = 0 =>
          /\ chain = written
          /\ head.hash = HashBefore(Len(written) + 1) /\ head.revision = Len(written)

KeysInv ==
    /\ keys.of \in [KeyVersions -> KeyMaterials \cup {Missing}]
    /\ keys.active \in KeyVersions \cup {Missing}
    /\ keys = [of |-> keys.of, active |-> keys.active, required |-> keys.required]
    /\ steadyKeys \in BOOLEAN
    /\ steadyKeys => \A j \in 1 .. Len(written) : written[j].seal # NoSeal =>
          keys.of[written[j].seal.version] = written[j].seal.key

CheckInv ==
    /\ check = [running |-> check.running, head |-> check.head, overtaken |-> check.overtaken,
                result |-> check.result, read |-> check.read]
    /\ check.running \in BOOLEAN /\ check.overtaken \in BOOLEAN
    /\ check.running /\ ~check.overtaken /\ damages = 0 => check.head = head

\* A valid verdict counts entries that were written.
VerdictInv ==
    /\ check.result = "VALID" /\ check.read # <<>> =>
          /\ check.head.revision \in 1 .. Len(written)
          /\ IsSeq(check.read) /\ Len(check.read) = check.head.revision
          /\ \A i \in 1 .. Len(check.read) : check.read[i] = written[i]
    /\ WholeIsValid

SealInv == WrittenInv /\ ChainInv /\ UndamagedInv /\ KeysInv /\ CheckInv /\ VerdictInv

LEMMA PrefixBasics ==
    ASSUME NEW s, NEW w, IsSeq(s), IsSeq(w), Len(s) \in 1 .. Len(w),
           \A i \in 1 .. Len(s) : s[i] = w[i]
    PROVE  s = SubSeq(w, 1, Len(s))
  <1>1. PICK S : w \in Seq(S)
    BY DEF IsSeq
  <1>2. PICK n : n = Len(s)
    OBVIOUS
  <1>3. PICK t : t = SubSeq(w, 1, n)
    OBVIOUS
  <1>4. n \in 1 .. Len(w) /\ Len(w) \in Nat
    BY <1>1, <1>2
  <1>5. DOMAIN t = 1 .. n /\ \A i \in 1 .. n : t[i] = w[i]
    BY <1>1, <1>3, <1>4
  <1>6. t = [i \in 1 .. n |-> w[i]]
    BY <1>1, <1>3, <1>4
  <1>7. s = [i \in 1 .. n |-> s[i]]
    BY <1>2, SeqBasics
  <1>8. \A i \in 1 .. n : s[i] = w[i]
    BY <1>2
  <1>9. s = t
    BY <1>6, <1>7, <1>8
  <1> QED
    BY <1>2, <1>3, <1>9

LEMMA VerdictFollows == SealInv => VerdictIsTrue
  <1> SUFFICES ASSUME SealInv, check.result = "VALID", check.read # <<>>
               PROVE  check.read = SubSeq(written, 1, check.head.revision)
    BY DEF SealInv, VerdictInv, VerdictIsTrue, ValidIsWhole
  <1> QED
    BY PrefixBasics DEF SealInv, VerdictInv, WrittenInv

----------------------------------------------------------------------------
(* The issues of a chain, read from the list of codes. *)
LEMMA IssuesOf ==
    ASSUME NEW read, NEW passport
    PROVE  /\ Issues(read, passport) \subseteq
                 {"DUPLICATE_SEQUENCE", "MISSING_ENTRY", "INVALID_PREVIOUS_HASH",
                  "INVALID_ENTRY_HASH", "INVALID_SIGNATURE", "HEAD_MISMATCH", "INCOMPLETE",
                  "VALID_WITH_LEGACY"}
           /\ "DUPLICATE_SEQUENCE" \in Issues(read, passport) <=>
                 \E i \in DOMAIN read :
                    read[i].seq = IF i = 1 THEN 0 ELSE read[i - 1].seq
           /\ "MISSING_ENTRY" \in Issues(read, passport) <=>
                 \E i \in DOMAIN read :
                    read[i].seq > (IF i = 1 THEN 0 ELSE read[i - 1].seq) + 1
           /\ "INVALID_PREVIOUS_HASH" \in Issues(read, passport) <=>
                 \E i \in DOMAIN read :
                    read[i].prior # IF i = 1 THEN <<>> ELSE read[i - 1].hash
           /\ "INVALID_ENTRY_HASH" \in Issues(read, passport) <=>
                 \E i \in DOMAIN read : ContentHash(read[i]) # read[i].hash
           /\ "INVALID_SIGNATURE" \in Issues(read, passport) <=>
                 \E i \in DOMAIN read : SealStatus(read[i]) = "SEAL_INVALID"
           /\ "HEAD_MISMATCH" \in Issues(read, passport) <=>
                 \E i \in DOMAIN read : i = Len(read)
                     /\ \/ passport.hash \notin {<<>>, read[i].hash}
                        \/ passport.revision # read[i].revision
           /\ "INCOMPLETE" \in Issues(read, passport) <=>
                 \E i \in DOMAIN read : SealStatus(read[i]) = "SEAL_KEY_MISSING"
           /\ "VALID_WITH_LEGACY" \in Issues(read, passport) <=>
                 \E i \in DOMAIN read : SealStatus(read[i]) = "LEGACY_UNSEALED"
  BY DEF Issues

----------------------------------------------------------------------------
(* The verdict is the first code of the precedence that was found. *)
LEMMA PrecedenceList ==
    /\ DOMAIN Precedence = 1 .. 9
    /\ Precedence[1] = "DUPLICATE_SEQUENCE" /\ Precedence[2] = "MISSING_ENTRY"
    /\ Precedence[3] = "INVALID_PREVIOUS_HASH" /\ Precedence[4] = "INVALID_ENTRY_HASH"
    /\ Precedence[5] = "INVALID_SIGNATURE" /\ Precedence[6] = "HEAD_MISMATCH"
    /\ Precedence[7] = "INCOMPLETE" /\ Precedence[8] = "VALID_WITH_LEGACY"
    /\ Precedence[9] = "VALID"
  BY DEF Precedence

Ranks(found) == {i \in DOMAIN Precedence : Precedence[i] \in found \cup {"VALID"}}

LEMMA FirstRank ==
    ASSUME NEW found
    PROVE  /\ Min(Ranks(found)) \in Ranks(found)
           /\ \A i \in Ranks(found) : Min(Ranks(found)) <= i
  <1>1. Ranks(found) \subseteq Nat /\ 9 \in Ranks(found)
    BY PrecedenceList DEF Ranks
  <1>2. PICK m \in Ranks(found) : \A i \in Ranks(found) : m <= i
    BY <1>1, LeastNatural
  <1> QED
    BY <1>2 DEF Min

LEMMA ResultOf ==
    ASSUME NEW read, NEW passport
    PROVE  /\ Result(read, passport) = "VALID" => Issues(read, passport) = {}
           /\ Issues(read, passport) \subseteq {"VALID_WITH_LEGACY"} =>
                 Result(read, passport) \in {"VALID", "VALID_WITH_LEGACY"}
  <1> PICK found : found = Issues(read, passport)
    OBVIOUS
  <1> PICK m : m = Min(Ranks(found))
    OBVIOUS
  <1>1. Result(read, passport) = Precedence[m]
    BY DEF Result, Ranks
  <1>2. /\ m \in 1 .. 9 /\ Precedence[m] \in found \cup {"VALID"}
        /\ \A i \in 1 .. 9 : Precedence[i] \in found => m <= i
    BY FirstRank, PrecedenceList DEF Ranks
  <1>3. found \subseteq
          {"DUPLICATE_SEQUENCE", "MISSING_ENTRY", "INVALID_PREVIOUS_HASH",
           "INVALID_ENTRY_HASH", "INVALID_SIGNATURE", "HEAD_MISMATCH", "INCOMPLETE",
           "VALID_WITH_LEGACY"}
    BY IssuesOf
  <1>4. ASSUME Precedence[m] = "VALID"
        PROVE  found = {}
    <2>1. m = 9
      BY <1>2, <1>4, PrecedenceList
    <2>2. \A i \in 1 .. 8 : Precedence[i] \notin found
      BY <1>2, <2>1
    <2> QED
      BY <1>3, <2>2, PrecedenceList
  <1>5. ASSUME found \subseteq {"VALID_WITH_LEGACY"}
        PROVE  Precedence[m] \in {"VALID", "VALID_WITH_LEGACY"}
    BY <1>2, <1>5
  <1> QED
    BY <1>1, <1>4, <1>5

(* A chain that gives no issue is what had been written, entry by entry. *)
LEMMA SealIsValid ==
    ASSUME NEW e, SealStatus(e) = "SEAL_VALID"
    PROVE  e.seal # NoSeal /\ e.seal.over = SealBody(e)
  BY DEF SealStatus

LEMMA StatusOf ==
    ASSUME NEW e
    PROVE  SealStatus(e) \in
              {"LEGACY_UNSEALED", "SEAL_KEY_MISSING", "SEAL_VALID", "SEAL_INVALID"}
  BY DEF SealStatus

LEMMA NoIssueInOrder ==
    ASSUME ChainInv, NEW passport, Issues(chain, passport) = {}
    PROVE  \A i \in 1 .. Len(chain) : chain[i].seq = i
  <1>0. Len(chain) \in Nat /\ DOMAIN chain = 1 .. Len(chain)
    BY SeqBasics DEF ChainInv
  <1>1. \A i \in 1 .. Len(chain) :
          /\ chain[i].seq # IF i = 1 THEN 0 ELSE chain[i - 1].seq
          /\ ~(chain[i].seq > (IF i = 1 THEN 0 ELSE chain[i - 1].seq) + 1)
    BY <1>0, IssuesOf
  <1>2. \A i \in 1 .. Len(chain) : chain[i].seq \in Nat \ {0}
    BY DEF ChainInv, FromWritten
  <1> DEFINE astray == {i \in 1 .. Len(chain) : chain[i].seq # i}
  <1>3. SUFFICES ASSUME astray # {} PROVE FALSE
    OBVIOUS
  <1>4. astray \subseteq Nat
    OBVIOUS
  <1>5. PICK i \in astray : \A k \in astray : i <= k
    BY <1>3, <1>4, LeastNatural
  <1>6. i \in 1 .. Len(chain) /\ chain[i].seq # i
    BY <1>5
  <1>7. CASE i = 1
    BY <1>1, <1>2, <1>6, <1>7
  <1>8. CASE i # 1
    <2>1. i - 1 \in 1 .. Len(chain) /\ i - 1 <= i /\ ~(i <= i - 1)
      BY <1>0, <1>6, <1>8
    <2>2. i - 1 \notin astray
      BY <1>5, <2>1
    <2>3. chain[i - 1].seq = i - 1
      BY <2>1, <2>2
    <2>4. chain[i].seq # i - 1 /\ ~(chain[i].seq > i)
      BY <1>0, <1>1, <1>6, <1>8, <2>3
    <2>5. chain[i - 1].seq <= chain[i].seq
      BY <1>6, <2>1 DEF ChainInv
    <2> QED
      BY <1>2, <1>6, <2>3, <2>4, <2>5
  <1> QED
    BY <1>7, <1>8

LEMMA NoIssueIsWritten ==
    ASSUME WrittenInv, ChainInv, NEW passport, Issues(chain, passport) = {}, chain # <<>>
    PROVE  /\ passport.revision \in 1 .. Len(written) /\ Len(chain) = passport.revision
           /\ \A i \in 1 .. Len(chain) : chain[i] = written[i]
  <1>0. /\ Len(chain) \in Nat /\ DOMAIN chain = 1 .. Len(chain)
        /\ chain = [i \in 1 .. Len(chain) |-> chain[i]]
    BY SeqBasics DEF ChainInv
  <1>1. \A i \in 1 .. Len(chain) : chain[i].seq = i
    BY NoIssueInOrder
  <1>2. ASSUME NEW i \in 1 .. Len(chain)
        PROVE  i \in 1 .. Len(written) /\ chain[i] = written[i]
    <2>1. FromWritten(chain[i]) /\ chain[i].seq = i
      BY <1>1 DEF ChainInv
    <2>2. /\ EntryForm(chain[i]) /\ i \in 1 .. Len(written)
          /\ chain[i].hash = written[i].hash /\ chain[i].seal \in {written[i].seal, NoSeal}
      BY <2>1 DEF FromWritten
    <2>3. AsWritten(i)
      BY <2>2 DEF WrittenInv
    <2>4. ContentHash(chain[i]) = chain[i].hash
      BY <1>0, IssuesOf
    <2>5. ContentHash(chain[i]) = ContentHash(written[i])
      BY <2>2, <2>3, <2>4 DEF AsWritten
    <2>6. /\ chain[i].seq = written[i].seq /\ chain[i].payload = written[i].payload
          /\ chain[i].prior = written[i].prior
      BY <2>5, ContentInjective
    <2>7. SealStatus(chain[i]) = "SEAL_VALID"
      BY <1>0, IssuesOf, StatusOf
    <2>8. chain[i].seal # NoSeal /\ chain[i].seal.over = SealBody(chain[i])
      BY <2>7, SealIsValid
    <2>9. chain[i].seal = written[i].seal
      BY <2>2, <2>8
    <2>10. SealBody(chain[i]) = SealBody(written[i])
      BY <2>3, <2>8, <2>9 DEF AsWritten
    <2>11. chain[i].revision = written[i].revision
      BY <2>10, SealBodyInjective
    <2> QED
      BY <2>2, <2>3, <2>6, <2>9, <2>11 DEF AsWritten, EntryForm
  <1>3. Len(chain) \in 1 .. Len(chain)
    <2>1. Len(chain) # 0
      <3>1. SUFFICES ASSUME Len(chain) = 0 PROVE FALSE
        OBVIOUS
      <3>2. PICK S : chain \in Seq(S)
        BY DEF ChainInv, IsSeq
      <3> QED
        BY <3>1, <3>2
    <2> QED
      BY <1>0, <2>1
  <1>4. passport.revision = chain[Len(chain)].revision
    BY <1>0, <1>3, IssuesOf
  <1>5. chain[Len(chain)] = written[Len(chain)] /\ Len(chain) \in 1 .. Len(written)
    BY <1>2, <1>3
  <1>6. written[Len(chain)].revision = Len(chain)
    BY <1>5 DEF WrittenInv, AsWritten
  <1> QED
    BY <1>2, <1>4, <1>5, <1>6

(* A chain to which nothing happened gives no issue but unsealed entries. *)
LEMMA SoundSeals ==
    ASSUME WrittenInv, KeysInv, steadyKeys, SealAssumption, NEW j \in 1 .. Len(written)
    PROVE  SealStatus(written[j]) \in {"LEGACY_UNSEALED", "SEAL_VALID"}
  <1>1. CASE written[j].seal = NoSeal
    BY <1>1 DEF SealStatus
  <1>2. CASE written[j].seal # NoSeal
    <2>1. /\ written[j].seal.key \in KeyMaterials
          /\ written[j].seal.over = SealBody(written[j])
      BY <1>2 DEF WrittenInv, AsWritten
    <2>2. keys.of[written[j].seal.version] = written[j].seal.key
      BY <1>2 DEF KeysInv
    <2>3. written[j].seal.key # Missing
      BY <2>1 DEF SealAssumption
    <2> QED
      BY <1>2, <2>1, <2>2, <2>3 DEF SealStatus, KeyFor
  <1> QED
    BY <1>1, <1>2

LEMMA UndamagedIsKind ==
    ASSUME SealInv, SealAssumption, steadyKeys, damages = 0
    PROVE  Issues(chain, head) \subseteq {"VALID_WITH_LEGACY"}
  <1>0. WrittenInv /\ KeysInv
    BY DEF SealInv
  <1>1. /\ chain = written /\ head.revision = Len(written)
        /\ head.hash = HashBefore(Len(written) + 1)
    BY DEF SealInv, UndamagedInv
  <1>2. Len(written) \in Nat /\ DOMAIN written = 1 .. Len(written)
    BY <1>0, SeqBasics DEF WrittenInv
  <1>3. PICK issues : issues = Issues(chain, head)
    OBVIOUS
  <1>4. \A i \in 1 .. Len(written) :
          /\ written[i].seq = i /\ written[i].revision = i
          /\ written[i].prior = HashBefore(i) /\ written[i].hash = ContentHash(written[i])
    BY <1>0 DEF WrittenInv, AsWritten
  <1>5. \A i \in 1 .. Len(written) :
          (IF i = 1 THEN 0 ELSE written[i - 1].seq) = i - 1
    <2>1. ASSUME NEW i \in 1 .. Len(written), i # 1
          PROVE  written[i - 1].seq = i - 1
      <3>1. i - 1 \in 1 .. Len(written)
        BY <1>2, <2>1
      <3> QED
        BY <1>4, <3>1
    <2> QED
      BY <1>2, <2>1
  <1>6. "DUPLICATE_SEQUENCE" \notin issues /\ "MISSING_ENTRY" \notin issues
    <2>1. ASSUME NEW i \in 1 .. Len(written)
          PROVE  /\ written[i].seq # IF i = 1 THEN 0 ELSE written[i - 1].seq
                 /\ ~(written[i].seq > (IF i = 1 THEN 0 ELSE written[i - 1].seq) + 1)
      <3>1. PICK before : before = IF i = 1 THEN 0 ELSE written[i - 1].seq
        OBVIOUS
      <3>2. before = i - 1 /\ written[i].seq = i
        BY <1>4, <1>5, <3>1
      <3> QED
        BY <1>2, <3>1, <3>2
    <2> QED
      BY <1>1, <1>2, <1>3, <2>1, IssuesOf
  <1>7. "INVALID_PREVIOUS_HASH" \notin issues /\ "INVALID_ENTRY_HASH" \notin issues
    <2>1. \A i \in 1 .. Len(written) :
            /\ written[i].prior = IF i = 1 THEN <<>> ELSE written[i - 1].hash
            /\ ContentHash(written[i]) = written[i].hash
      BY <1>4 DEF HashBefore
    <2> QED
      BY <1>1, <1>2, <1>3, <2>1, IssuesOf
  <1>8. "INVALID_SIGNATURE" \notin issues /\ "INCOMPLETE" \notin issues
    <2>1. \A i \in 1 .. Len(written) :
            SealStatus(written[i]) \in {"LEGACY_UNSEALED", "SEAL_VALID"}
      BY <1>0, SoundSeals
    <2> QED
      BY <1>1, <1>2, <1>3, <2>1, IssuesOf
  <1>9. "HEAD_MISMATCH" \notin issues
    <2>1. ASSUME NEW i \in 1 .. Len(written), i = Len(written)
          PROVE  head.hash = written[i].hash /\ head.revision = written[i].revision
      <3>1. i + 1 # 1 /\ i + 1 - 1 = i
        BY <1>2
      <3>2. \A k : k # 1 => HashBefore(k) = written[k - 1].hash
        BY DEF HashBefore
      <3>3. head.hash = HashBefore(i + 1)
        BY <1>1, <2>1
      <3>4. HashBefore(i + 1) = written[i].hash
        BY <3>1, <3>2
      <3>5. written[i].revision = i
        BY <1>4
      <3>6. head.hash = written[i].hash
        BY <3>3, <3>4
      <3>7. head.revision = written[i].revision
        BY <1>1, <2>1, <3>5
      <3> QED
        BY <3>6, <3>7
    <2>2. "HEAD_MISMATCH" \in issues <=>
            \E i \in DOMAIN chain : i = Len(chain)
               /\ \/ head.hash \notin {<<>>, chain[i].hash}
                  \/ head.revision # chain[i].revision
      BY ONLY <1>3, IssuesOf
    <2>3. ASSUME NEW i \in DOMAIN chain, i = Len(chain)
          PROVE  head.hash = chain[i].hash /\ head.revision = chain[i].revision
      BY <1>1, <1>2, <2>1, <2>3
    <2> QED
      BY <2>2, <2>3
  <1>10. issues \subseteq
          {"DUPLICATE_SEQUENCE", "MISSING_ENTRY", "INVALID_PREVIOUS_HASH",
           "INVALID_ENTRY_HASH", "INVALID_SIGNATURE", "HEAD_MISMATCH", "INCOMPLETE",
           "VALID_WITH_LEGACY"}
    BY <1>3, IssuesOf
  <1> QED
    BY <1>3, <1>6, <1>7, <1>8, <1>9, <1>10

----------------------------------------------------------------------------
(* Each step keeps it. *)
LEMMA SealInitInv == SealAssumption /\ SealInit => SealInv
  <1> SUFFICES ASSUME SealAssumption, SealInit PROVE SealInv
    OBVIOUS
  <1>0. <<>> \in Seq({}) /\ Len(<<>>) = 0
    OBVIOUS
  <1>1. WrittenInv /\ ChainInv
    BY <1>0 DEF WrittenInv, ChainInv, IsSeq, SealInit
  <1>2. UndamagedInv
    BY <1>0 DEF UndamagedInv, HashBefore, SealInit, NoHead
  <1>3. KeysInv
    <2>1. keys \in [of : [KeyVersions -> KeyMaterials \cup {Missing}],
                    active : KeyVersions \cup {Missing}, required : BOOLEAN]
      BY DEF SealInit
    <2> QED
      BY <1>0, <2>1 DEF KeysInv, SealInit
  <1>4. CheckInv /\ VerdictInv
    BY DEF CheckInv, VerdictInv, WholeIsValid, SealInit, NoCheck
  <1> QED
    BY <1>1, <1>2, <1>3, <1>4 DEF SealInv

LEMMA AppendSealedInv == SealAssumption /\ SealInv /\ AppendSealed => SealInv'
  <1> SUFFICES ASSUME SealAssumption, SealInv, AppendSealed PROVE SealInv'
    OBVIOUS
  <1>0. WrittenInv /\ ChainInv /\ UndamagedInv /\ KeysInv /\ CheckInv /\ VerdictInv
    BY DEF SealInv
  <1>1. /\ chain = written /\ damages = 0
        /\ head.hash = HashBefore(Len(written) + 1) /\ head.revision = Len(written)
    BY <1>0 DEF UndamagedInv, AppendSealed
  <1>2. PICK len : len = Len(written)
    OBVIOUS
  <1>3. len \in Nat /\ DOMAIN written = 1 .. len /\ IsSeq(written)
    BY <1>0, <1>2, SeqBasics DEF WrittenInv
  <1>4. PICK body : body = [seq |-> len + 1, payload |-> "written", prior |-> head.hash,
                            revision |-> len + 1, hash |-> <<>>, seal |-> NoSeal]
    OBVIOUS
  <1>5. PICK hashed : hashed = [body EXCEPT !.hash = ContentHash(body)]
    OBVIOUS
  <1>6. PICK entry : entry = [hashed EXCEPT !.seal = SealOf(hashed)]
    OBVIOUS
  <1>7. /\ chain' = Append(chain, entry) /\ written' = Append(written, entry)
        /\ head' = [hash |-> entry.hash, revision |-> len + 1]
        /\ check' = [check EXCEPT !.overtaken = @ \/ check.running]
        /\ UNCHANGED <<keys, steadyKeys, damages>>
    BY <1>1, <1>2, <1>4, <1>5, <1>6 DEF AppendSealed
  <1>8. /\ EntryForm(entry) /\ entry.seq = len + 1 /\ entry.payload = "written"
        /\ entry.revision = len + 1 /\ entry.prior = head.hash
        /\ entry.seal = SealOf(hashed)
    BY <1>4, <1>5, <1>6 DEF EntryForm
  <1>9. ContentHash(hashed) = ContentHash(body) /\ ContentHash(entry) = ContentHash(body)
    BY <1>4, <1>5, <1>6 DEF ContentHash
  <1>10. entry.hash = ContentHash(body) /\ hashed.hash = ContentHash(body)
    BY <1>4, <1>5, <1>6
  <1>11. SealBody(entry) = SealBody(hashed)
    BY <1>4, <1>5, <1>6, <1>9, <1>10 DEF SealBody
  <1>12. entry.seal # NoSeal =>
           /\ entry.seal.version \in KeyVersions /\ entry.seal.key \in KeyMaterials
           /\ entry.seal.over = SealBody(entry)
           /\ entry.seal.key = keys.of[entry.seal.version]
    <2>1. SUFFICES ASSUME entry.seal # NoSeal
                   PROVE  /\ entry.seal.version \in KeyVersions
                          /\ entry.seal.key \in KeyMaterials
                          /\ entry.seal.over = SealBody(entry)
                          /\ entry.seal.key = keys.of[entry.seal.version]
      OBVIOUS
    <2>2. /\ SealingAvailable
          /\ entry.seal = [version |-> keys.active, key |-> keys.of[keys.active],
                           over |-> SealBody(hashed)]
      BY <1>8, <2>1 DEF SealOf
    <2>3. keys.active \in KeyVersions /\ keys.of[keys.active] \in KeyMaterials
      BY <1>0, <2>2 DEF SealingAvailable, KeysInv
    <2> QED
      BY <1>11, <2>2, <2>3
  <1>13. PICK w : w = Append(written, entry)
    OBVIOUS
  <1>14. /\ IsSeq(w) /\ Len(w) = len + 1
         /\ \A j \in 1 .. len : w[j] = written[j]
         /\ w[len + 1] = entry
    BY <1>2, <1>3, <1>13, AppendBasics
  <1>15. written' = w /\ chain' = w
    BY <1>1, <1>7, <1>13
  <1>16. \A j \in 1 .. len + 1 : HashBefore(j)' = HashBefore(j)
    <2>1. ASSUME NEW j \in 1 .. len + 1, j # 1
          PROVE  w[j - 1] = written[j - 1]
      <3>1. j - 1 \in 1 .. len
        BY <1>3, <2>1
      <3> QED
        BY <1>14, <3>1
    <2> QED
      BY <1>15, <2>1 DEF HashBefore
  <1>17. WrittenInv'
    <2>1. ASSUME NEW j \in 1 .. len PROVE AsWritten(j)'
      <3>1. AsWritten(j)
        BY <1>0, <1>2 DEF WrittenInv
      <3>2. w[j] = written[j]
        BY <1>14
      <3>3. HashBefore(j)' = HashBefore(j)
        BY <1>3, <1>16
      <3> QED
        BY <1>15, <3>1, <3>2, <3>3 DEF AsWritten, EntryForm, ContentHash, SealBody
    <2>2. AsWritten(len + 1)'
      <3>1. w[len + 1] = entry
        BY <1>14
      <3>2. len + 1 \in 1 .. len + 1
        BY <1>3
      <3>3. HashBefore(len + 1)' = head.hash
        BY <1>1, <1>2, <1>16, <3>2
      <3>4. entry.hash = ContentHash(entry)
        BY <1>9, <1>10
      <3> QED
        BY <1>8, <1>12, <1>15, <3>1, <3>3, <3>4
        DEF AsWritten, EntryForm, ContentHash, SealBody
    <2>3. \A j \in 1 .. len + 1 : j \in 1 .. len \/ j = len + 1
      BY <1>3
    <2>4. IsSeq(written') /\ Len(written') = len + 1
      BY <1>14, <1>15
    <2> QED
      BY <2>1, <2>2, <2>3, <2>4 DEF WrittenInv
  <1>18. ChainInv'
    <2>1. \A j \in 1 .. len + 1 : AsWritten(j)'
      BY <1>14, <1>15, <1>17 DEF WrittenInv
    <2>2. \A j \in 1 .. len + 1 : FromWritten(chain[j])'
      BY <1>14, <1>15, <2>1 DEF AsWritten, FromWritten, EntryForm
    <2>3. \A j \in 1 .. len + 1 : chain'[j].seq = j
      BY <1>15, <2>1 DEF AsWritten
    <2>4. IsSeq(chain') /\ Len(chain') = len + 1
      BY <1>14, <1>15
    <2>5. ASSUME NEW i \in 1 .. len + 1, NEW k \in 1 .. len + 1, i <= k
          PROVE  chain'[i].seq <= chain'[k].seq
      BY <2>3, <2>5
    <2> QED
      BY <2>2, <2>4, <2>5 DEF ChainInv
  <1>19. UndamagedInv'
    <2>1. len + 2 # 1 /\ len + 1 + 1 = len + 2 /\ len + 2 - 1 = len + 1
      BY <1>3
    <2>2. HashBefore(len + 2)' = entry.hash
      BY <1>14, <1>15, <2>1 DEF HashBefore
    <2>3. head'.hash = entry.hash /\ head'.revision = len + 1
      BY <1>7
    <2>4. Len(written') + 1 = len + 2
      BY <1>14, <1>15, <2>1
    <2>5. head'.hash = HashBefore(Len(written) + 1)'
      BY <2>2, <2>3, <2>4
    <2>6. chain' = written' /\ head'.revision = Len(written') /\ damages' \in Nat
      BY <1>0, <1>7, <1>14, <1>15, <2>3 DEF UndamagedInv
    <2> QED
      BY <2>5, <2>6 DEF UndamagedInv
  <1>20. KeysInv'
    <2>1. ASSUME steadyKeys, NEW j \in 1 .. len + 1, w[j].seal # NoSeal
          PROVE  keys.of[w[j].seal.version] = w[j].seal.key
      <3>1. CASE j = len + 1
        BY <1>12, <1>14, <2>1, <3>1
      <3>2. CASE j # len + 1
        <4>1. j \in 1 .. len
          BY <1>3, <2>1, <3>2
        <4> QED
          BY <1>0, <1>2, <1>14, <2>1, <4>1 DEF KeysInv
      <3> QED
        BY <3>1, <3>2
    <2>2. \A j \in 1 .. Len(written') : j \in 1 .. len + 1
      BY <1>14, <1>15
    <2> QED
      BY <1>0, <1>7, <1>15, <2>1, <2>2 DEF KeysInv
  <1>21. PICK c : c = [check EXCEPT !.overtaken = @ \/ check.running]
    OBVIOUS
  <1>22. /\ c = [running |-> c.running, head |-> c.head, overtaken |-> c.overtaken,
                 result |-> c.result, read |-> c.read]
         /\ c.running = check.running /\ c.head = check.head
         /\ c.overtaken = (check.overtaken \/ check.running)
         /\ c.result = check.result /\ c.read = check.read
    BY <1>0, <1>21 DEF CheckInv
  <1>23. check' = c
    BY <1>7, <1>21
  <1>24. CheckInv'
    <2>1. c.running \in BOOLEAN /\ c.overtaken \in BOOLEAN
      BY <1>0, <1>22 DEF CheckInv
    <2>2. c.running => c.overtaken
      BY <1>0, <1>22 DEF CheckInv
    <2> QED
      BY <1>22, <1>23, <2>1, <2>2 DEF CheckInv
  <1>25. VerdictInv'
    <2>1. WholeIsValid'
      <3>1. ~c.overtaken => ~check.overtaken
        BY <1>22
      <3> QED
        BY <1>0, <1>7, <1>22, <1>23, <3>1 DEF VerdictInv, WholeIsValid
    <2>2. ASSUME check.result = "VALID", check.read # <<>>
          PROVE  /\ check.head.revision \in 1 .. len + 1
                 /\ IsSeq(check.read) /\ Len(check.read) = check.head.revision
                 /\ \A i \in 1 .. Len(check.read) : check.read[i] = w[i]
      <3>1. /\ check.head.revision \in 1 .. len
            /\ IsSeq(check.read) /\ Len(check.read) = check.head.revision
            /\ \A i \in 1 .. Len(check.read) : check.read[i] = written[i]
        BY <1>0, <1>2, <2>2 DEF VerdictInv
      <3>2. check.head.revision \in 1 .. len + 1
        BY <1>3, <3>1
      <3>3. \A i \in 1 .. Len(check.read) : i \in 1 .. len
        BY <1>3, <3>1
      <3> QED
        BY <1>14, <3>1, <3>2, <3>3
    <2> QED
      BY <1>14, <1>15, <1>22, <1>23, <2>1, <2>2 DEF VerdictInv
  <1> QED
    BY <1>17, <1>18, <1>19, <1>20, <1>24, <1>25 DEF SealInv

LEMMA ChangeKeysInv == SealAssumption /\ SealInv /\ ChangeKeys => SealInv'
  <1> SUFFICES ASSUME SealAssumption, SealInv, ChangeKeys PROVE SealInv'
    OBVIOUS
  <1>0. WrittenInv /\ ChainInv /\ UndamagedInv /\ KeysInv /\ CheckInv /\ VerdictInv
    BY DEF SealInv
  <1>1. UNCHANGED <<chain, head, written, damages, check>>
    BY DEF ChangeKeys
  <1>2. WrittenInv' /\ ChainInv' /\ UndamagedInv' /\ CheckInv'
    <2>1. WrittenInv'
      BY <1>0, <1>1 DEF WrittenInv, AsWritten, HashBefore, EntryForm, ContentHash, SealBody
    <2>2. ChainInv'
      BY <1>0, <1>1 DEF ChainInv, FromWritten, EntryForm
    <2>3. UndamagedInv' /\ CheckInv'
      BY <1>0, <1>1 DEF UndamagedInv, HashBefore, CheckInv
    <2> QED
      BY <2>1, <2>2, <2>3
  <1>3. steadyKeys' \in BOOLEAN /\ (steadyKeys' => steadyKeys) /\ KeysInv'
    <2>1. CASE \E v \in KeyVersions :
                  keys' = [keys EXCEPT !.active = v] /\ UNCHANGED steadyKeys
      <3>1. PICK v \in KeyVersions :
                  keys' = [keys EXCEPT !.active = v] /\ UNCHANGED steadyKeys
        BY <2>1
      <3>2. /\ keys'.of = keys.of /\ keys'.active = v
            /\ keys' = [of |-> keys'.of, active |-> keys'.active, required |-> keys'.required]
        BY <1>0, <3>1 DEF KeysInv
      <3> QED
        BY <1>0, <1>1, <3>1, <3>2 DEF KeysInv
    <2>2. CASE \E v \in KeyVersions, m \in KeyMaterials \cup {Missing} :
                 /\ keys' = [keys EXCEPT !.of[v] = m]
                 /\ steadyKeys' = (steadyKeys
                                     /\ \A i \in DOMAIN written : written[i].seal.version # v)
      <3>1. PICK v \in KeyVersions, m \in KeyMaterials \cup {Missing} :
                 /\ keys' = [keys EXCEPT !.of[v] = m]
                 /\ steadyKeys' = (steadyKeys
                                     /\ \A i \in DOMAIN written : written[i].seal.version # v)
        BY <2>2
      <3>2. PICK of : of = [keys.of EXCEPT ![v] = m]
        OBVIOUS
      <3>3. /\ of \in [KeyVersions -> KeyMaterials \cup {Missing}]
            /\ \A x \in KeyVersions : x # v => of[x] = keys.of[x]
        BY <1>0, <3>2 DEF KeysInv
      <3>4. keys' = [keys EXCEPT !.of = of]
        BY <3>1, <3>2, Zenon
      <3>5. /\ keys'.of = of /\ keys'.active = keys.active
            /\ keys' = [of |-> keys'.of, active |-> keys'.active, required |-> keys'.required]
        BY <1>0, <3>4 DEF KeysInv
      <3>6. steadyKeys' \in BOOLEAN /\ (steadyKeys' => steadyKeys)
        BY <1>0, <3>1 DEF KeysInv
      <3>7. ASSUME steadyKeys', NEW j \in 1 .. Len(written), written[j].seal # NoSeal
            PROVE  of[written[j].seal.version] = written[j].seal.key
        <4>1. j \in DOMAIN written
          BY <1>0, SeqBasics DEF WrittenInv
        <4>2. written[j].seal.version # v
          BY <3>1, <3>7, <4>1
        <4>3. written[j].seal.version \in KeyVersions
          BY <1>0, <3>7 DEF WrittenInv, AsWritten
        <4>4. keys.of[written[j].seal.version] = written[j].seal.key
          BY <1>0, <3>6, <3>7 DEF KeysInv
        <4> QED
          BY <3>3, <4>2, <4>3, <4>4
      <3> QED
        BY <1>0, <1>1, <3>3, <3>5, <3>6, <3>7 DEF KeysInv
    <2> QED
      BY <2>1, <2>2 DEF ChangeKeys
  <1>4. VerdictInv'
    BY <1>0, <1>1, <1>3 DEF VerdictInv, WholeIsValid
  <1> QED
    BY <1>2, <1>3, <1>4 DEF SealInv

\* Whatever happens to the store, once the chain has kept its form.
LEMMA DamageInv ==
    ASSUME SealAssumption, SealInv, Damage, ChainInv'
    PROVE  SealInv'
  <1>0. WrittenInv /\ UndamagedInv /\ KeysInv /\ CheckInv /\ VerdictInv
    BY DEF SealInv
  <1>1. damages' = damages + 1 /\ UNCHANGED <<written, keys, steadyKeys, check>>
    BY DEF Damage
  <1>2. damages' \in Nat /\ damages' # 0
    BY <1>0, <1>1 DEF UndamagedInv
  <1>3. WrittenInv'
    BY <1>0, <1>1 DEF WrittenInv, AsWritten, HashBefore, EntryForm, ContentHash, SealBody
  <1>4. UndamagedInv'
    BY <1>2 DEF UndamagedInv
  <1>5. KeysInv' /\ CheckInv'
    BY <1>0, <1>1, <1>2 DEF KeysInv, CheckInv
  <1>6. VerdictInv'
    BY <1>0, <1>1, <1>2 DEF VerdictInv, WholeIsValid
  <1> QED
    BY <1>3, <1>4, <1>5, <1>6 DEF SealInv

LEMMA SpoilForm ==
    ASSUME NEW e, FromWritten(e),
           NEW d, \/ d = [e EXCEPT !.payload = "spoiled"]
                  \/ d = [e EXCEPT !.revision = @ + 1]
                  \/ d = [e EXCEPT !.prior = <<>>]
                  \/ d = [e EXCEPT !.seal = NoSeal]
    PROVE  FromWritten(d) /\ d.seq = e.seq
  <1>1. e = [seq |-> e.seq, payload |-> e.payload, prior |-> e.prior, revision |-> e.revision,
             hash |-> e.hash, seal |-> e.seal]
    BY DEF FromWritten, EntryForm
  <1>2. CASE d = [e EXCEPT !.payload = "spoiled"]
    BY <1>1, <1>2 DEF FromWritten, EntryForm
  <1>3. CASE d = [e EXCEPT !.revision = @ + 1]
    BY <1>1, <1>3 DEF FromWritten, EntryForm
  <1>4. CASE d = [e EXCEPT !.prior = <<>>]
    BY <1>1, <1>4 DEF FromWritten, EntryForm
  <1>5. CASE d = [e EXCEPT !.seal = NoSeal]
    BY <1>1, <1>5 DEF FromWritten, EntryForm
  <1> QED
    BY <1>2, <1>3, <1>4, <1>5

LEMMA SpoilInv ==
    ASSUME SealAssumption, SealInv, NEW i \in DOMAIN chain, Spoil(i)
    PROVE  SealInv'
  <1>0. ChainInv /\ Damage /\ written' = written
    BY DEF SealInv, Spoil, Damage
  <1>1. IsSeq(chain) /\ DOMAIN chain = 1 .. Len(chain) /\ Len(chain) \in Nat
    BY <1>0, SeqBasics DEF ChainInv
  <1>2. PICK e : e = chain[i]
    OBVIOUS
  <1>3. FromWritten(e)
    BY <1>0, <1>1, <1>2 DEF ChainInv
  <1>4. PICK d : /\ chain' = [chain EXCEPT ![i] = d]
                 /\ \/ d = [e EXCEPT !.payload = "spoiled"]
                    \/ d = [e EXCEPT !.revision = @ + 1]
                    \/ d = [e EXCEPT !.prior = <<>>]
                    \/ d = [e EXCEPT !.seal = NoSeal]
    <2>1. CASE chain' = [chain EXCEPT ![i].payload = "spoiled"]
      <3>1. chain' = [chain EXCEPT ![i] = [e EXCEPT !.payload = "spoiled"]]
        BY <1>2, <2>1, Zenon
      <3> QED
        BY <3>1, Zenon
    <2>2. CASE chain' = [chain EXCEPT ![i].revision = @ + 1]
      <3>1. chain' = [chain EXCEPT ![i] = [e EXCEPT !.revision = @ + 1]]
        BY <1>2, <2>2, Zenon
      <3> QED
        BY <3>1, Zenon
    <2>3. CASE chain' = [chain EXCEPT ![i].prior = <<>>]
      <3>1. chain' = [chain EXCEPT ![i] = [e EXCEPT !.prior = <<>>]]
        BY <1>2, <2>3, Zenon
      <3> QED
        BY <3>1, Zenon
    <2>4. CASE chain' = [chain EXCEPT ![i].seal = NoSeal]
      <3>1. chain' = [chain EXCEPT ![i] = [e EXCEPT !.seal = NoSeal]]
        BY <1>2, <2>4, Zenon
      <3> QED
        BY <3>1, Zenon
    <2> QED
      BY <2>1, <2>2, <2>3, <2>4 DEF Spoil
  <1>5. FromWritten(d) /\ d.seq = e.seq
    BY <1>3, <1>4, SpoilForm
  <1>6. PICK t : t = [chain EXCEPT ![i] = d]
    OBVIOUS
  <1>7. /\ IsSeq(t) /\ Len(t) = Len(chain)
        /\ \A k \in 1 .. Len(chain) : t[k] = IF k = i THEN d ELSE chain[k]
    BY <1>1, <1>6, ExceptBasics
  <1>8. ChainInv'
    <2>1. \A k \in 1 .. Len(chain) : FromWritten(t[k]) /\ t[k].seq = chain[k].seq
      BY <1>0, <1>2, <1>5, <1>7 DEF ChainInv
    <2>2. chain' = t
      BY <1>4, <1>6
    <2>3. \A k \in 1 .. Len(chain) : FromWritten(chain[k])'
      BY <1>0, <2>1, <2>2 DEF FromWritten, EntryForm
    <2>4. \A j, k \in 1 .. Len(chain) : j <= k => t[j].seq <= t[k].seq
      BY <1>0, <2>1 DEF ChainInv
    <2> QED
      BY <1>7, <2>2, <2>3, <2>4 DEF ChainInv
  <1> QED
    BY <1>0, <1>8, DamageInv

LEMMA LoseInv ==
    ASSUME SealAssumption, SealInv, NEW i \in DOMAIN chain, Lose(i)
    PROVE  SealInv'
  <1>0. ChainInv /\ Damage /\ written' = written
    BY DEF SealInv, Lose, Damage
  <1>1. IsSeq(chain) /\ DOMAIN chain = 1 .. Len(chain) /\ Len(chain) \in Nat
    BY <1>0, SeqBasics DEF ChainInv
  <1>2. PICK t : t = RemoveAt(chain, i)
    OBVIOUS
  <1>3. /\ IsSeq(t) /\ Len(t) = Len(chain) - 1
        /\ \A k \in 1 .. Len(chain) - 1 : t[k] = IF k < i THEN chain[k] ELSE chain[k + 1]
    BY <1>1, <1>2, RemoveBasics
  <1>4. chain' = t
    BY <1>2 DEF Lose
  <1>5. ASSUME NEW k \in 1 .. Len(chain) - 1
        PROVE  k \in 1 .. Len(chain) /\ k + 1 \in 1 .. Len(chain)
    BY <1>1
  <1>6. \A k \in 1 .. Len(chain) - 1 : FromWritten(chain[k])'
    <2>1. \A k \in 1 .. Len(chain) - 1 : FromWritten(t[k])
      BY <1>0, <1>3, <1>5 DEF ChainInv
    <2> QED
      BY <1>0, <1>4, <2>1 DEF FromWritten, EntryForm
  <1>7. ASSUME NEW j \in 1 .. Len(chain) - 1, NEW k \in 1 .. Len(chain) - 1, j <= k
        PROVE  t[j].seq <= t[k].seq
    <2>1. PICK a : a = IF j < i THEN j ELSE j + 1
      OBVIOUS
    <2>2. PICK b : b = IF k < i THEN k ELSE k + 1
      OBVIOUS
    <2>3. t[j] = chain[a] /\ t[k] = chain[b]
      BY <1>3, <2>1, <2>2
    <2>4. a \in 1 .. Len(chain) /\ b \in 1 .. Len(chain)
      BY <1>5, <2>1, <2>2
    <2>5. a <= b
      BY <1>1, <1>7, <2>1, <2>2
    <2> QED
      BY <1>0, <2>3, <2>4, <2>5 DEF ChainInv
  <1>8. ChainInv'
    BY <1>3, <1>4, <1>6, <1>7 DEF ChainInv
  <1> QED
    BY <1>0, <1>8, DamageInv

LEMMA RepeatInv ==
    ASSUME SealAssumption, SealInv, NEW i \in DOMAIN chain, Repeat(i)
    PROVE  SealInv'
  <1>0. ChainInv /\ Damage /\ written' = written
    BY DEF SealInv, Repeat, Damage
  <1>1. IsSeq(chain) /\ DOMAIN chain = 1 .. Len(chain) /\ Len(chain) \in Nat
    BY <1>0, SeqBasics DEF ChainInv
  <1>2. PICK t : t = InsertAt(chain, i, chain[i])
    OBVIOUS
  <1>3. /\ IsSeq(t) /\ Len(t) = Len(chain) + 1
        /\ \A k \in 1 .. Len(chain) + 1 : t[k] = IF k <= i THEN chain[k] ELSE chain[k - 1]
    BY <1>1, <1>2, RepeatBasics
  <1>4. chain' = t
    BY <1>2 DEF Repeat
  <1>5. ASSUME NEW k \in 1 .. Len(chain) + 1
        PROVE  /\ k <= i => k \in 1 .. Len(chain)
               /\ ~(k <= i) => k - 1 \in 1 .. Len(chain)
    BY <1>1
  <1>6. \A k \in 1 .. Len(chain) + 1 : FromWritten(chain[k])'
    <2>1. \A k \in 1 .. Len(chain) + 1 : FromWritten(t[k])
      BY <1>0, <1>3, <1>5 DEF ChainInv
    <2> QED
      BY <1>0, <1>4, <2>1 DEF FromWritten, EntryForm
  <1>7. ASSUME NEW j \in 1 .. Len(chain) + 1, NEW k \in 1 .. Len(chain) + 1, j <= k
        PROVE  t[j].seq <= t[k].seq
    <2>1. PICK a : a = IF j <= i THEN j ELSE j - 1
      OBVIOUS
    <2>2. PICK b : b = IF k <= i THEN k ELSE k - 1
      OBVIOUS
    <2>3. t[j] = chain[a] /\ t[k] = chain[b]
      BY <1>3, <2>1, <2>2
    <2>4. a \in 1 .. Len(chain) /\ b \in 1 .. Len(chain)
      BY <1>5, <2>1, <2>2
    <2>5. a <= b
      BY <1>1, <1>7, <2>1, <2>2
    <2> QED
      BY <1>0, <2>3, <2>4, <2>5 DEF ChainInv
  <1>8. ChainInv'
    BY <1>3, <1>4, <1>6, <1>7 DEF ChainInv
  <1> QED
    BY <1>0, <1>8, DamageInv

LEMMA RestoreHeadInv == ASSUME SealAssumption, SealInv, RestoreHead PROVE SealInv'
  <1>1. ChainInv'
    BY DEF SealInv, ChainInv, FromWritten, EntryForm, RestoreHead, Damage
  <1> QED
    BY <1>1, DamageInv DEF RestoreHead

LEMMA BeginVerifyInv == ASSUME SealAssumption, SealInv, BeginVerify PROVE SealInv'
  <1>0. WrittenInv /\ ChainInv /\ UndamagedInv /\ KeysInv /\ CheckInv /\ VerdictInv
    BY DEF SealInv
  <1>1. /\ UNCHANGED <<chain, head, written, keys, steadyKeys, damages>>
        /\ check' = [NoCheck EXCEPT !.running = TRUE, !.head = head]
    BY DEF BeginVerify
  <1>2. check' = [running |-> TRUE, head |-> head, overtaken |-> FALSE, result |-> "none",
                  read |-> <<>>]
    BY <1>1 DEF NoCheck
  <1>3. WrittenInv'
    BY <1>0, <1>1 DEF WrittenInv, AsWritten, HashBefore, EntryForm, ContentHash, SealBody
  <1>4. ChainInv'
    BY <1>0, <1>1 DEF ChainInv, FromWritten, EntryForm
  <1>5. UndamagedInv' /\ KeysInv'
    BY <1>0, <1>1 DEF UndamagedInv, HashBefore, KeysInv
  <1>6. CheckInv' /\ VerdictInv'
    <2>1. /\ check'.running = TRUE /\ check'.head = head /\ check'.overtaken = FALSE
          /\ check'.result = "none" /\ check'.read = <<>>
      BY <1>2
    <2>2. check' = [running |-> check'.running, head |-> check'.head,
                    overtaken |-> check'.overtaken, result |-> check'.result,
                    read |-> check'.read]
      BY <1>2, <2>1
    <2>3. CheckInv'
      BY <1>1, <2>1, <2>2 DEF CheckInv
    <2>4. VerdictInv'
      BY <2>1 DEF VerdictInv, WholeIsValid
    <2> QED
      BY <2>3, <2>4
  <1> QED
    BY <1>3, <1>4, <1>5, <1>6 DEF SealInv

LEMMA EndVerifyInv ==
    ASSUME SealAssumption, SealInv, NEW limit \in Limits, EndVerify(limit)
    PROVE  SealInv'
  <1>0. WrittenInv /\ ChainInv /\ UndamagedInv /\ KeysInv /\ CheckInv /\ VerdictInv
    BY DEF SealInv
  <1>1. /\ UNCHANGED <<chain, head, written, keys, steadyKeys, damages>>
        /\ check.running
    BY DEF EndVerify
  <1>2. PICK r : r = IF Len(chain) > limit THEN "TRUNCATED" ELSE Result(chain, check.head)
    OBVIOUS
  <1>3. check' = [check EXCEPT !.running = FALSE, !.read = chain, !.result = r]
    BY <1>2 DEF EndVerify
  <1>4. check' = [running |-> FALSE, head |-> check.head, overtaken |-> check.overtaken,
                  result |-> r, read |-> chain]
    BY <1>0, <1>3 DEF CheckInv
  <1>5. r = "VALID" => Issues(chain, check.head) = {}
    BY <1>2, ResultOf
  <1>6. WrittenInv'
    BY <1>0, <1>1 DEF WrittenInv, AsWritten, HashBefore, EntryForm, ContentHash, SealBody
  <1>7. ChainInv'
    BY <1>0, <1>1 DEF ChainInv, FromWritten, EntryForm
  <1>8. UndamagedInv' /\ KeysInv'
    BY <1>0, <1>1 DEF UndamagedInv, HashBefore, KeysInv
  <1>9. CheckInv'
    BY <1>0, <1>4 DEF CheckInv
  <1>10. ASSUME r = "VALID", chain # <<>>
         PROVE  /\ check.head.revision \in 1 .. Len(written)
                /\ IsSeq(chain) /\ Len(chain) = check.head.revision
                /\ \A i \in 1 .. Len(chain) : chain[i] = written[i]
    <2>1. Issues(chain, check.head) = {}
      BY <1>5, <1>10
    <2>2. IsSeq(chain)
      BY <1>0 DEF ChainInv
    <2>3. /\ check.head.revision \in 1 .. Len(written) /\ Len(chain) = check.head.revision
          /\ \A i \in 1 .. Len(chain) : chain[i] = written[i]
      BY <1>0, <1>10, <2>1, NoIssueIsWritten
    <2> QED
      BY <2>2, <2>3
  <1>11. ASSUME damages = 0, steadyKeys, ~check.overtaken
         PROVE  r \in {"VALID", "VALID_WITH_LEGACY", "TRUNCATED"}
    <2>1. check.head = head
      BY <1>0, <1>1, <1>11 DEF CheckInv
    <2>2. Issues(chain, head) \subseteq {"VALID_WITH_LEGACY"}
      BY <1>11, UndamagedIsKind
    <2>3. Result(chain, head) \in {"VALID", "VALID_WITH_LEGACY"}
      BY <2>2, ResultOf
    <2> QED
      BY <1>2, <2>1, <2>3
  <1>12. VerdictInv'
    <2>1. WholeIsValid'
      BY <1>1, <1>4, <1>11 DEF WholeIsValid
    <2>2. /\ check'.result = r /\ check'.read = chain /\ check'.head = check.head
          /\ written' = written
      BY <1>1, <1>4
    <2> QED
      BY <1>10, <2>1, <2>2 DEF VerdictInv
  <1> QED
    BY <1>6, <1>7, <1>8, <1>9, <1>12 DEF SealInv

LEMMA SealStep == SealAssumption /\ SealInv /\ [SealNext]_sealVars => SealInv'
  <1> SUFFICES ASSUME SealAssumption, SealInv, [SealNext]_sealVars PROVE SealInv'
    OBVIOUS
  <1>1. CASE UNCHANGED sealVars
    <2>0. WrittenInv /\ ChainInv /\ UndamagedInv /\ KeysInv /\ CheckInv /\ VerdictInv
      BY DEF SealInv
    <2>1. UNCHANGED <<chain, head, written, keys, steadyKeys, damages, check>>
      BY <1>1 DEF sealVars
    <2>2. WrittenInv'
      BY <2>0, <2>1 DEF WrittenInv, AsWritten, HashBefore, EntryForm, ContentHash, SealBody
    <2>3. ChainInv'
      BY <2>0, <2>1 DEF ChainInv, FromWritten, EntryForm
    <2>4. UndamagedInv' /\ KeysInv' /\ CheckInv' /\ VerdictInv'
      BY <2>0, <2>1 DEF UndamagedInv, HashBefore, KeysInv, CheckInv, VerdictInv, WholeIsValid
    <2> QED
      BY <2>2, <2>3, <2>4 DEF SealInv
  <1>2. CASE AppendSealed
    BY <1>2, AppendSealedInv
  <1>3. CASE ChangeKeys
    BY <1>3, ChangeKeysInv
  <1>4. ASSUME NEW i \in DOMAIN chain, Spoil(i) \/ Lose(i) \/ Repeat(i)
        PROVE  SealInv'
    BY <1>4, SpoilInv, LoseInv, RepeatInv
  <1>5. CASE RestoreHead
    BY <1>5, RestoreHeadInv
  <1>6. CASE BeginVerify
    BY <1>6, BeginVerifyInv
  <1>7. ASSUME NEW limit \in Limits, EndVerify(limit)
        PROVE  SealInv'
    BY <1>7, EndVerifyInv
  <1> QED
    BY <1>1, <1>2, <1>3, <1>4, <1>5, <1>6, <1>7 DEF SealNext

\* What verify_passport_chain calls valid is what had been written, and a chain to which
\* nothing happened is not called damaged, for chains of any length, any number of keys and
\* of verifications, and however often the store is damaged.
THEOREM VerdictAlwaysTrue == SealSpec => []VerdictIsTrue
  <1>1. SealInit => SealInv
    BY SealInitInv, SealAssumption
  <1>2. SealInv /\ [SealNext]_sealVars => SealInv'
    BY SealStep, SealAssumption
  <1>3. SealInv => VerdictIsTrue
    BY VerdictFollows
  <1> QED
    BY <1>1, <1>2, <1>3, PTL DEF SealSpec

----------------------------------------------------------------------------
(* The readiness of indexes. *)

Name(i) == IndexSpecs[i].name
Names == {Name(i) : i \in DOMAIN IndexSpecs}
States == {"NOT_INITIALIZED", "INITIALIZING", "READY", "FAILED", "STOPPED"}

\* An index that makes a key unique is there only while no two documents share the key.
Enforced == indexes \cap UniqueNames \cap repeated = {}

\* A server at work has found, made or noted every index it has passed.
Noted ==
    \A s \in Servers : readiness[s].state = "INITIALIZING" =>
        \A i \in DOMAIN IndexSpecs :
            i < readiness[s].next => Name(i) \in indexes \cup readiness[s].failed

\* One that concluded all is well found or made all of them.
Believed ==
    \A s \in Servers : readiness[s].state = "READY" =>
        \A i \in DOMAIN IndexSpecs : Name(i) \in indexes

ReadinessType ==
    readiness \in [Servers -> [state : States, next : Nat, failed : SUBSET Names]]

IndexInv == ReadinessType /\ Enforced /\ Noted /\ Believed

----------------------------------------------------------------------------
LEMMA InitIndex == IndexInit => IndexInv
  <1> SUFFICES ASSUME IndexInit PROVE IndexInv
    OBVIOUS
  <1>1. Unready \in [state : States, next : Nat, failed : SUBSET Names]
    BY DEF Unready, States
  <1>2. \A s \in Servers : readiness[s].state = "NOT_INITIALIZED"
    BY DEF IndexInit, Unready
  <1>3. ReadinessType
    BY <1>1 DEF IndexInit, ReadinessType
  <1>4. Enforced
    BY DEF IndexInit, Enforced
  <1>5. Noted /\ Believed
    BY <1>2 DEF Noted, Believed
  <1> QED
    BY <1>3, <1>4, <1>5 DEF IndexInv

LEMMA SpecAt ==
    ASSUME NEW i \in DOMAIN IndexSpecs
    PROVE  /\ Name(i) \in Names
           /\ ~IndexSpecs[i].unique => Name(i) \notin UniqueNames
  <1>1. Name(i) \in Names
    BY DEF Names
  <1>2. ASSUME Name(i) \in UniqueNames PROVE IndexSpecs[i].unique
    <2>1. PICK j \in DOMAIN IndexSpecs : IndexSpecs[j].unique /\ IndexSpecs[j].name = Name(i)
      BY <1>2 DEF UniqueNames
    <2> QED
      BY <2>1, IndexAssumption DEF Name
  <1> QED
    BY <1>1, <1>2

\* The start of a server forgets what it believed.
LEMMA BeginKeeps ==
    ASSUME IndexInv, NEW s \in Servers, BeginEnsure(s)
    PROVE  IndexInv'
  <1>1. readiness' = [readiness EXCEPT ![s] =
                         [state |-> "INITIALIZING", next |-> 1, failed |-> {}]]
    <2>1. [Unready EXCEPT !.state = "INITIALIZING"]
             = [state |-> "INITIALIZING", next |-> 1, failed |-> {}]
      BY DEF Unready
    <2> QED
      BY <2>1 DEF BeginEnsure
  <1>2. ReadinessType'
    <2>1. [state |-> "INITIALIZING", next |-> 1, failed |-> {}]
             \in [state : States, next : Nat, failed : SUBSET Names]
      BY DEF States
    <2> QED
      BY <1>1, <2>1 DEF IndexInv, ReadinessType
  <1>3. \A i \in DOMAIN IndexSpecs : ~(i < 1)
    <2>1. DOMAIN IndexSpecs = 1 .. Len(IndexSpecs) /\ Len(IndexSpecs) \in Nat
      BY IndexAssumption
    <2> QED
      BY <2>1
  <1>4. Noted'
    BY <1>1, <1>3 DEF IndexInv, ReadinessType, Noted, BeginEnsure
  <1>5. Believed'
    BY <1>1 DEF IndexInv, ReadinessType, Believed, BeginEnsure
  <1>6. Enforced'
    BY DEF IndexInv, Enforced, BeginEnsure
  <1> QED
    BY <1>2, <1>4, <1>5, <1>6 DEF IndexInv

\* Whatever becomes of an index, it is there or noted, and it is not made over repeated keys.
LEMMA EnsureKeeps ==
    ASSUME IndexInv, NEW s \in Servers, EnsureIndex(s)
    PROVE  IndexInv'
  <1> DEFINE i == readiness[s].next
  <1>1. i \in DOMAIN IndexSpecs /\ i \in Nat /\ readiness[s].state = "INITIALIZING"
    BY DEF IndexInv, ReadinessType, EnsureIndex
  <1>2. PICK failed : /\ failed \in {{}, {Name(i)}}
                      /\ Pass(s, failed)
                      /\ Name(i) \in indexes' \cup failed
                      /\ indexes \subseteq indexes'
    BY DEF EnsureIndex, Name
  <1>3. failed \subseteq Names
    BY <1>1, <1>2, SpecAt
  <1>4. readiness' = [readiness EXCEPT ![s] =
            [readiness[s] EXCEPT !.next = i + 1, !.failed = readiness[s].failed \cup failed]]
    BY <1>2 DEF Pass
  <1>5. ReadinessType'
    <2>1. readiness[s] \in [state : States, next : Nat, failed : SUBSET Names]
      BY DEF IndexInv, ReadinessType
    <2>2. i + 1 \in Nat /\ readiness[s].failed \cup failed \in SUBSET Names
      BY <1>1, <1>3, <2>1
    <2> QED
      BY <1>4, <2>2 DEF IndexInv, ReadinessType
  <1>6. Noted'
    <2> SUFFICES ASSUME NEW t \in Servers, readiness'[t].state = "INITIALIZING",
                        NEW j \in DOMAIN IndexSpecs, j < readiness'[t].next
                 PROVE  Name(j) \in indexes' \cup readiness'[t].failed
      BY DEF Noted, Name
    <2>1. CASE t # s
      BY <1>2, <1>4, <2>1 DEF IndexInv, ReadinessType, Noted
    <2>2. CASE t = s
      <3>1. readiness'[t].next = i + 1 /\ readiness'[t].failed = readiness[s].failed \cup failed
        BY <1>4, <2>2 DEF IndexInv, ReadinessType
      <3>2. j = i \/ j < i
        <4>1. j \in Nat
          BY IndexAssumption
        <4> QED
          BY <1>1, <3>1, <4>1
      <3>3. CASE j = i
        BY <1>2, <3>1, <3>3
      <3>4. CASE j < i
        BY <1>1, <1>2, <3>1, <3>4 DEF IndexInv, Noted
      <3> QED
        BY <3>2, <3>3, <3>4
    <2> QED
      BY <2>1, <2>2
  <1>7. Believed'
    BY <1>1, <1>2, <1>4 DEF IndexInv, ReadinessType, Believed, Name
  <1>8. Enforced'
    <2>1. repeated' = repeated
      BY DEF EnsureIndex
    <2>2. CASE indexes' = indexes
      BY <2>1, <2>2 DEF IndexInv, Enforced
    <2>3. CASE /\ Name(i) \in indexes \/ ~IndexSpecs[i].unique \/ Name(i) \notin repeated
               /\ indexes' = indexes \cup {Name(i)}
      BY <1>1, <2>1, <2>3, SpecAt DEF IndexInv, Enforced
    <2> QED
      BY <2>2, <2>3 DEF EnsureIndex, Name
  <1> QED
    BY <1>5, <1>6, <1>7, <1>8 DEF IndexInv

\* READY is concluded only over the whole table, with nothing noted.
LEMMA ConcludeKeeps ==
    ASSUME IndexInv, NEW s \in Servers, ConcludeEnsure(s)
    PROVE  IndexInv'
  <1>1. PICK state \in {"READY", "STOPPED", "FAILED"} :
            /\ readiness' = [readiness EXCEPT ![s].state = state]
            /\ state = "READY" => readiness[s].failed = {}
    BY DEF ConcludeEnsure, Ready
  <1>2. UNCHANGED <<indexes, repeated>>
    BY DEF ConcludeEnsure
  <1>3. ReadinessType'
    BY <1>1 DEF IndexInv, ReadinessType, States
  <1>4. Noted'
    BY <1>1, <1>2 DEF IndexInv, ReadinessType, Noted
  <1>5. Believed'
    <2>1. \A i \in DOMAIN IndexSpecs : i < readiness[s].next
      <3>1. readiness[s].next > Len(IndexSpecs) /\ readiness[s].next \in Nat
        BY DEF ConcludeEnsure, IndexInv, ReadinessType
      <3>2. DOMAIN IndexSpecs = 1 .. Len(IndexSpecs) /\ Len(IndexSpecs) \in Nat
        BY IndexAssumption
      <3> QED
        BY <3>1, <3>2
    <2>2. \A i \in DOMAIN IndexSpecs : Name(i) \in indexes \cup readiness[s].failed
      BY <2>1 DEF ConcludeEnsure, IndexInv, Noted
    <2> QED
      BY <1>1, <1>2, <2>2 DEF IndexInv, ReadinessType, Believed, Name
  <1>6. Enforced'
    BY <1>2 DEF IndexInv, Enforced
  <1> QED
    BY <1>3, <1>4, <1>5, <1>6 DEF IndexInv

LEMMA IndexStep == IndexInv /\ [IndexNext]_indexVars => IndexInv'
  <1> SUFFICES ASSUME IndexInv, [IndexNext]_indexVars PROVE IndexInv'
    OBVIOUS
  <1>1. ASSUME NEW s \in Servers, BeginEnsure(s) \/ EnsureIndex(s) \/ ConcludeEnsure(s)
        PROVE  IndexInv'
    BY <1>1, BeginKeeps, EnsureKeeps, ConcludeKeeps
  <1>2. ASSUME NEW s \in Servers, NEW name \in UniqueNames, PublishTwice(s, name)
        PROVE  IndexInv'
    BY <1>2 DEF PublishTwice, IndexInv, ReadinessType, Enforced, Noted, Believed, Name
  <1>3. ASSUME NEW name, MergeRepeated(name)
        PROVE  IndexInv'
    BY <1>3 DEF MergeRepeated, IndexInv, ReadinessType, Enforced, Noted, Believed, Name
  <1>4. CASE UNCHANGED indexVars
    BY <1>4 DEF indexVars, IndexInv, ReadinessType, Enforced, Noted, Believed, Name
  <1> QED
    BY <1>1, <1>2, <1>3, <1>4 DEF IndexNext

----------------------------------------------------------------------------
\* While any server believes in the indexes, every unique one is in the database and no
\* two documents share its key, whatever the other servers do beside it.
THEOREM ReadyAlwaysUnique == IndexSpec => []ReadyIsUnique
  <1>1. IndexInv => ReadyIsUnique
    <2> SUFFICES ASSUME IndexInv, NEW s \in Servers, readiness[s].state = "READY"
                 PROVE  UniqueNames \subseteq indexes /\ UniqueNames \cap repeated = {}
      BY DEF ReadyIsUnique
    <2>1. UniqueNames \subseteq indexes
      BY DEF IndexInv, Believed, UniqueNames, Name
    <2> QED
      BY <2>1 DEF IndexInv, Enforced
  <1>2. IndexSpec => []IndexInv
    BY InitIndex, IndexStep, PTL DEF IndexSpec
  <1> QED
    BY <1>1, <1>2, PTL
==============================================================================
