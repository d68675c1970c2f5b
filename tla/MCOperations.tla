---------------------------- MODULE MCOperations ----------------------------
EXTENDS Operations

\* 273.9(d) is a substring of 273.9(d)(1).
MCLabel     == {"a", "d", "d1"}
MCInPartial == {"a", "d"}
MCWithin    == {<<"d", "d1">>}

\* Negative figures, one that is read as 0; two whose readings meet, 0.29
\* and 0.99; a value, its percentage and the one its float gives, 0.29, 29
\* and 28 (int(0.29 * 100) in Python); a half that is rounded to even, 2.5.
MCWhole      == {-2, 1, 2, 3}
MCHundredths == {-150, -60, 29, 99, 250, 2800, 2900}
MCFallsShort == {29}

\* Below every domain, a rate that is no count, both, above a rate's.
MCValue == {-100, 50, 100, 150}

\* The mart that joins members to persons, one that does not.
MCMarts == <<"fairness_audit", "worker_caseload">>
MCItems == <<"database">>
=============================================================================
