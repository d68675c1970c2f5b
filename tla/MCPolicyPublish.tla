-------------------------- MODULE MCPolicyPublish --------------------------
(* PolicyPublish with two administrators and up to two new sets.          *)
EXTENDS PolicyPublish, TLC

CONSTANTS a1, a2, p1, p2, s3, s4

\* Administrators, drafts and the ids of new sets are interchangeable.
Symmetry == Permutations({a1, a2}) \cup Permutations({p1, p2}) \cup Permutations({s3, s4})
=============================================================================
