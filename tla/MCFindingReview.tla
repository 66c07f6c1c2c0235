--------------------------- MODULE MCFindingReview ---------------------------
(* Small instances of FindingReview for TLC. *)
EXTENDS FindingReview, TLC

CONSTANTS f1, f2, author, gm, ceo, s1, s2, nobody, nothing, none

ReviewSymmetry == Permutations({s1, s2}) \cup Permutations({gm, ceo}) \cup Permutations({f1, f2})
=============================================================================
