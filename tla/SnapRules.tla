----------------------------- MODULE SnapRules -----------------------------
(***************************************************************************)
(* The SNAP decision model, rules-engine's snap-eligibility.dmn, as        *)
(* operators of one household's facts f and one set's figures p for its    *)
(* size.  The fifteen decisions keep their names.                          *)
(*                                                                         *)
(* FEEL computes on exact decimals.  Here money is an integer number of    *)
(* units, a rate an integer number of RateUnit-ths, and a decision that    *)
(* follows a multiplication by a rate is kept scaled by RateUnit, or by    *)
(* its square, so that it is exact too.                                    *)
(***************************************************************************)
EXTENDS Integers

CONSTANTS
    Cent,       \* units of money per cent
    RateUnit    \* the rate 1

ASSUME MoneyAssumption == Cent \in Nat \ {0} /\ RateUnit \in Nat \ {0}

Dollar == 100 * Cent

Facts == [size : Nat, earned : Nat, unearned : Nat, care : Nat, medical : Nat,
          shelter : Nat, utility : Nat, elderly : BOOLEAN, categorical : BOOLEAN]

Figures == [grossLimit : Nat, netLimit : Nat, standard : Nat, earnedRate : 0..RateUnit,
            medicalThreshold : Nat, shelterCap : Nat, shelterShare : 0..RateUnit,
            maxAllotment : Nat, minimum : Nat, minimumMaxSize : Nat,
            reductionRate : 0..RateUnit]

Floor0(x)   == IF x < 0 THEN 0 ELSE x
Least(x, y) == IF x <= y THEN x ELSE y

\* The least integer q with a <= q * b, for a >= 0.
CeilingOf(a, b) == (a + b - 1) \div b

-----------------------------------------------------------------------------
(* The income tests                                                        *)

GrossIncome(f) == f.earned + f.unearned

GrossTestExempt(f) == f.elderly \/ f.categorical

\* Seeded bug: the comparison is the wrong way round.
GrossLimitReversed(f, p) ==
    IF GrossTestExempt(f) THEN "EXEMPT"
    ELSE IF GrossIncome(f) >= p.grossLimit THEN "PASS" ELSE "FAIL"

GrossIncomeTest(f, p) ==
    IF GrossTestExempt(f) THEN "EXEMPT"
    ELSE IF GrossIncome(f) <= p.grossLimit THEN "PASS" ELSE "FAIL"

MedicalExpenseDeduction(f, p) ==
    IF f.elderly THEN Floor0(f.medical - p.medicalThreshold) ELSE 0

\* In RateUnit-ths of a unit.
AdjustedIncome(f, p) ==
    Floor0(RateUnit * (GrossIncome(f) - p.standard - f.care - MedicalExpenseDeduction(f, p))
           - f.earned * p.earnedRate)

\* This one and the two after it in RateUnit^2-ths of a unit.
ShelterExcess(f, p) ==
    Floor0(RateUnit * RateUnit * (f.shelter + f.utility) - p.shelterShare * AdjustedIncome(f, p))

ExcessShelterDeduction(f, p) ==
    IF f.elderly THEN ShelterExcess(f, p)
    ELSE Least(ShelterExcess(f, p), RateUnit * RateUnit * p.shelterCap)

NetIncome(f, p) ==
    Floor0(RateUnit * AdjustedIncome(f, p) - ExcessShelterDeduction(f, p))

NetIncomeTest(f, p) ==
    IF f.categorical THEN "EXEMPT"
    ELSE IF NetIncome(f, p) <= RateUnit * RateUnit * p.netLimit THEN "PASS" ELSE "FAIL"

-----------------------------------------------------------------------------
(* The benefit                                                             *)

\* ceiling() is to the dollar.
ComputedBenefit(f, p) ==
    Floor0(p.maxAllotment
           - Dollar * CeilingOf(NetIncome(f, p) * p.reductionRate,
                                Dollar * RateUnit * RateUnit * RateUnit))

Fails(f, p) == GrossIncomeTest(f, p) = "FAIL" \/ NetIncomeTest(f, p) = "FAIL"

\* The FIRST table.
BenefitAmount(f, p) ==
    LET computed == ComputedBenefit(f, p) IN
    IF Fails(f, p) THEN 0
    ELSE IF computed > 0 THEN computed
    ELSE IF f.size <= p.minimumMaxSize THEN p.minimum ELSE 0

ReasonCode(f, p) ==
    IF GrossIncomeTest(f, p) = "FAIL" THEN "GROSS_INCOME_EXCEEDS_LIMIT"
    ELSE IF NetIncomeTest(f, p) = "FAIL" THEN "NET_INCOME_EXCEEDS_LIMIT"
    ELSE IF BenefitAmount(f, p) <= 0 THEN "ZERO_BENEFIT_AMOUNT" ELSE "ELIGIBLE"

\* Seeded bug: a test passed is enough to be eligible.
DecisionByTestsAlone(f, p) ==
    [eligible |-> ~ Fails(f, p), amount |-> BenefitAmount(f, p), reason |-> ReasonCode(f, p)]

\* The Determination context.
Decision(f, p) ==
    [eligible |-> ~ Fails(f, p) /\ BenefitAmount(f, p) > 0,
     amount   |-> BenefitAmount(f, p),
     reason   |-> ReasonCode(f, p)]

\* toMoney: to the cent, half up.
Money(x) == Cent * ((2 * x + Cent) \div (2 * Cent))

-----------------------------------------------------------------------------
(* Expedited processing, decided at intake                                 *)

\* ExpeditedEligibility.isExpedited
IsExpedited(gross, liquid, shelter) ==
    \/ gross < 150 * Dollar /\ liquid <= 100 * Dollar
    \/ gross + liquid < shelter

-----------------------------------------------------------------------------
(* How two households compare                                              *)

\* f is at least as well off as g: no less income, no more recognised
\* expenses, no more exemptions, the same size.
AtLeastAsWellOff(f, g) ==
    /\ f.size = g.size
    /\ f.earned >= g.earned /\ f.unearned >= g.unearned
    /\ f.care <= g.care /\ f.medical <= g.medical
    /\ f.shelter <= g.shelter /\ f.utility <= g.utility
    /\ (f.elderly => g.elderly) /\ (f.categorical => g.categorical)
=============================================================================
