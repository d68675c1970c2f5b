----------------------------- MODULE MCCaseload -----------------------------
EXTENDS Caseload, TLC

CONSTANTS ana, ben, sue, ana1, ana2, ben1, sue1

\* Ana opens a case in two requests at once, as the case page does.
MCWorkerOf == ana1 :> ana @@ ana2 :> ana @@ ben1 :> ben @@ sue1 :> sue

Requests == Permutations({ana1, ana2})
=============================================================================
