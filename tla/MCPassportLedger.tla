-------------------------- MODULE MCPassportLedger --------------------------
(* Small instances of PassportLedger for TLC. *)
EXTENDS PassportLedger, TLC

CONSTANTS c1, c2, k1, k2, a, b, none

Request(k, x, r, h) == [key |-> k, content |-> x, expRev |-> r, expHead |-> h]

\* Two writers of revision 0 under different keys; a writer of revision 1 by
\* number and one by hash; a key reused for other content; a request whose only
\* token is the empty hash.
MCRequests ==
    { Request(k1, a, 0, none), Request(k2, b, 0, 0), Request(k2, b, 1, none),
      Request(k1, b, none, 1), Request(k1, a, none, 0) }

CallSymmetry == Permutations({c1, c2})
=============================================================================
