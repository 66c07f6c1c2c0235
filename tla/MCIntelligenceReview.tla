------------------------- MODULE MCIntelligenceReview -------------------------
(* Small instances of IntelligenceReview for TLC. *)
EXTENDS IntelligenceReview, TLC

CONSTANTS p1, f1, author, reviewer, s1, s2, key, nobody, nothing, none

IntelligenceSymmetry == Permutations({s1, s2})
=============================================================================
