------------------------------ MODULE IndexReadiness ------------------------------
(***************************************************************************)
(* The readiness of the passport indexes                                   *)
(* (backend/nextgen/passport_indexes.py): every server creates, when it    *)
(* starts, the indexes that are missing, and remembers whether all of them *)
(* are there; governed publication asks that memory.                       *)
(*                                                                         *)
(* A write that a unique index forbids is one that repeats its key.  The   *)
(* drop of an index of an obsolete name is left out.                       *)
(***************************************************************************)
EXTENDS Integers, Sequences

CONSTANTS
    Servers,
    Strict,         \* those that run in production or require the indexes
    IndexSpecs,     \* INDEX_SPECS: a sequence of names, unique or not, critical or not
    MaxIndexFaults, \* index operations that raise
    MaxStarts       \* Init gives it to startsLeft or withholds it

ASSUME IndexAssumption ==
    /\ Strict \subseteq Servers
    /\ IndexSpecs \in Seq([name : STRING, unique : BOOLEAN, critical : BOOLEAN])
    /\ \A i, j \in DOMAIN IndexSpecs : IndexSpecs[i].name = IndexSpecs[j].name => i = j
    /\ {MaxIndexFaults, MaxStarts} \subseteq Nat

VARIABLES
    indexes,        \* those of the database
    repeated,       \* names whose key some two documents share
    readiness,      \* each server's memory: state, next index, and those that failed
    indexFaults,
    startsLeft

indexVars == <<indexes, repeated, readiness, indexFaults, startsLeft>>

----------------------------------------------------------------------------
Unready == [state |-> "NOT_INITIALIZED", next |-> 1, failed |-> {}]

Named(names) == {IndexSpecs[i] : i \in {j \in DOMAIN IndexSpecs : IndexSpecs[j].name \in names}}

UniqueNames == {s.name : s \in {t \in {IndexSpecs[i] : i \in DOMAIN IndexSpecs} : t.unique}}

IndexInit ==
    /\ indexes = {} /\ indexFaults = 0
    /\ repeated \in SUBSET UniqueNames
    /\ readiness = [s \in Servers |-> Unready]

----------------------------------------------------------------------------
(* ensure_passport_indexes, which the start of a server waits for *)

BeginEnsure(s) ==
    /\ startsLeft > 0
    /\ readiness[s].state \in {"NOT_INITIALIZED", "READY", "FAILED", "STOPPED"}
    /\ startsLeft' = startsLeft - 1
    /\ readiness' = [readiness EXCEPT ![s] = [Unready EXCEPT !.state = "INITIALIZING"]]
    /\ UNCHANGED <<indexes, repeated, indexFaults>>

Pass(s, failed) ==
    readiness' = [readiness EXCEPT ![s].next = @ + 1, ![s].failed = @ \cup failed]

\* An index that is there is left alone; a unique one is not created over repeated keys.
EnsureIndex(s) ==
    /\ readiness[s].state = "INITIALIZING" /\ readiness[s].next \in DOMAIN IndexSpecs
    /\ LET spec == IndexSpecs[readiness[s].next]
       IN \/ /\ spec.name \in indexes \/ ~spec.unique \/ spec.name \notin repeated
             /\ indexes' = indexes \cup {spec.name}
             /\ Pass(s, {}) /\ UNCHANGED indexFaults
          \/ /\ spec.name \notin indexes /\ spec.unique /\ spec.name \in repeated
             /\ Pass(s, {spec.name}) /\ UNCHANGED <<indexes, indexFaults>>
          \/ /\ indexFaults < MaxIndexFaults
             /\ indexFaults' = indexFaults + 1
             /\ Pass(s, {spec.name}) /\ UNCHANGED indexes
    /\ UNCHANGED <<repeated, startsLeft>>

CriticalFailed(s) == \E spec \in Named(readiness[s].failed) : spec.critical

\* Mutant of Ready: only a critical index counts.
ReadyButFor(s) == ~CriticalFailed(s)

Ready(s) == readiness[s].failed = {}

\* A strict server does not start without a critical index.
ConcludeEnsure(s) ==
    /\ readiness[s].state = "INITIALIZING" /\ readiness[s].next > Len(IndexSpecs)
    /\ readiness' = [readiness EXCEPT ![s].state =
                        IF Ready(s) THEN "READY"
                        ELSE IF s \in Strict /\ CriticalFailed(s) THEN "STOPPED" ELSE "FAILED"]
    /\ UNCHANGED <<indexes, repeated, indexFaults, startsLeft>>

----------------------------------------------------------------------------
\* require_indexes_ready_for_publication
MayPublish(s) ==
    \/ readiness[s].state = "READY"
    \/ readiness[s].state = "FAILED" /\ s \notin Strict

\* Two racing publications repeat a key: the index refuses the second, if it is there.
PublishTwice(s, name) ==
    /\ MayPublish(s) /\ name \notin indexes
    /\ repeated' = repeated \cup {name}
    /\ UNCHANGED <<indexes, readiness, indexFaults, startsLeft>>

\* An operator merges the documents that share a key.
MergeRepeated(name) ==
    /\ name \in repeated
    /\ repeated' = repeated \ {name}
    /\ UNCHANGED <<indexes, readiness, indexFaults, startsLeft>>

IndexNext ==
    \/ \E s \in Servers : BeginEnsure(s) \/ EnsureIndex(s) \/ ConcludeEnsure(s)
    \/ \E s \in Servers, name \in UniqueNames : PublishTwice(s, name)
    \/ \E s \in Servers : readiness[s].state # "NOT_INITIALIZED"
                          /\ \E name \in repeated : MergeRepeated(name)

IndexSpec == IndexInit /\ startsLeft \in Nat /\ [][IndexNext]_indexVars

----------------------------------------------------------------------------
(* Properties *)

\* While a server believes in the indexes no two documents share a key that one of them makes
\* unique, although readiness is the memory of one process and others, strict or not, start,
\* fail and publish beside it.
ReadyIsUnique ==
    \A s \in Servers : readiness[s].state = "READY" =>
        UniqueNames \subseteq indexes /\ UniqueNames \cap repeated = {}
=============================================================================
