----------------------------- MODULE LedgerChain -----------------------------
(***************************************************************************)
(* What the passport ledger promises its callers, said without the store:  *)
(* a log that only grows at its end, by a request whose expected-state     *)
(* tokens name the end it is appended to, and at most once per key.        *)
(* (PASSPORT_CONCURRENCY_AND_APPROVAL_AUTHORITY.md, invariants 4, 7, 8, 10)*)
(***************************************************************************)
EXTENDS Naturals, Sequences

CONSTANTS Requests, NoToken

VARIABLE log

\* Revision and head hash both count the entries of an intact chain.
Names(q, n) == q.expRev \in {NoToken, n} /\ q.expHead \in {NoToken, n}

Unused(k) == \A i \in DOMAIN log : log[i].key # k

Extend(q) ==
    /\ Names(q, Len(log))
    /\ Unused(q.key)
    /\ log' = Append(log, q)

ChainInit == log = <<>>

ChainNext == \E q \in Requests : Extend(q)

ChainSpec == ChainInit /\ [][ChainNext]_log
=============================================================================
