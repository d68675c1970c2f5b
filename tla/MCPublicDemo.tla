---------------------------- MODULE MCPublicDemo ----------------------------
EXTENDS PublicDemo, TLC

CONSTANTS r1, r2, r3

Threads == Permutations({r1, r2, r3})
=============================================================================
