--------------------------- MODULE MCHumanReview ---------------------------
(* HumanReview with one row of each kind and two reviewers.               *)
EXTENDS HumanReview, TLC

CONSTANTS v1, v2, n1, f1, d1

\* Reviewers are interchangeable.
Symmetry == Permutations({v1, v2})
=============================================================================
