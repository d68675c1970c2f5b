----------------------------- MODULE Case_proofs -----------------------------
(***************************************************************************)
(* Proofs about the life of a case.  First DocumentIntake: what is posted  *)
(* and confirmed from its documents, for any number of documents, workers, *)
(* review pages and deliveries.  Then Determination: what is decided on    *)
(* its facts, for any household and any figures the code accepts, and what *)
(* quality control finds.  The two modules share no variable.              *)
(***************************************************************************)
EXTENDS DocumentIntake, Determination, NaturalsInduction, WellFoundedInduction, TLAPS

Classified(d) == status[d] \in {"CLASSIFIED", "CONFIRMED"}

\* A worker that is not idle holds a document that was delivered, and a page
\* shows one that was classified.
HoldInv ==
    /\ \A w \in Worker : stage[w] # "idle" => hand[w] \in Doc /\ reads[hand[w]] >= 1
    /\ \A v \in Reviewer : form[v] # NoDoc => Classified(form[v])

Inv == TypeOK /\ HoldInv

\* Deliveries are counted: one behind a classified document, one more behind
\* a handler that has yet to persist it, one for each worker that holds it.
CountInv ==
    /\ \A d \in Doc : Classified(d) => reads[d] >= 1
    /\ \A w \in Worker : stage[w] \in {"read", "drafted"} /\ Classified(hand[w]) =>
        reads[hand[w]] >= 2
    /\ \A w \in Worker, u \in Worker :
        w # u /\ stage[w] # "idle" /\ stage[u] # "idle" /\ hand[w] = hand[u] => reads[hand[w]] >= 2

\* A document nothing overtook is confirmed at most once, and then shows it.
StaleInv ==
    \A d \in Doc \ stale : /\ confirmed[d] \in {0, 1}
                           /\ confirmed[d] = 1 => status[d] = "CONFIRMED"

USE CaseAssumption, BoundsAssumption
USE DEF docVars, queueVars, workerVars, caseVars, Status

-----------------------------------------------------------------------------
(* Documents: types                                                        *)

LEMMA InitInv == Init => Inv
BY DEF Init, Inv, TypeOK, HoldInv

LEMMA StepInv == Inv /\ [Next]_vars => Inv'
<1> SUFFICES ASSUME Inv, [Next]_vars PROVE Inv'
    OBVIOUS
<1> USE DEF Inv, TypeOK, HoldInv, Classified, Idle
<1>1. ASSUME NEW d \in Doc, PutObject(d) PROVE Inv'
    BY <1>1 DEF PutObject
<1>2. ASSUME NEW d \in Doc, CommitUpload(d) PROVE Inv'
    BY <1>2 DEF CommitUpload
<1>3. ASSUME NEW w \in Worker, NEW d \in Doc, Deliver(w, d) PROVE Inv'
    BY <1>3 DEF Deliver
<1>4. ASSUME NEW w \in Worker, NEW M \in SUBSET Verification, Classify(w, M) PROVE Inv'
    BY <1>4 DEF Classify
<1>5. ASSUME NEW w \in Worker, Persist(w) PROVE Inv'
    BY <1>5 DEF Persist
<1>6. ASSUME NEW w \in Worker, Ack(w) PROVE Inv'
    BY <1>6 DEF Ack
<1>7. ASSUME NEW w \in Worker, Fail(w) PROVE Inv'
    BY <1>7 DEF Fail
<1>8. ASSUME NEW w \in Worker, Crash(w) PROVE Inv'
    BY <1>8 DEF Crash
<1>9. ASSUME NEW v \in Reviewer, NEW d \in Doc, OpenForm(v, d) PROVE Inv'
    BY <1>9 DEF OpenForm
<1>10. ASSUME NEW v \in Reviewer, NEW S \in SUBSET Verification, NEW income \in BOOLEAN,
              Confirm(v, S, income)
       PROVE  Inv'
    BY <1>10 DEF Confirm
<1>11. ASSUME NEW x \in Verification, Request(x) PROVE Inv'
    BY <1>11 DEF Request
<1>12. CASE UNCHANGED vars
    BY <1>12 DEF vars
<1> HIDE DEF Inv, TypeOK, HoldInv, Classified, Idle
<1> QED BY <1>1, <1>2, <1>3, <1>4, <1>5, <1>6, <1>7, <1>8, <1>9, <1>10, <1>11, <1>12
        DEF Next, WorkerStep

LEMMA AlwaysInv == Spec => []Inv
BY InitInv, StepInv, PTL DEF Spec

\* Types hold, for any workers and review pages; what is proposed or stored
\* as a match is never a verification of another case.
THEOREM TypeCorrect == Spec => []TypeOK
<1>1. Inv => TypeOK
    BY DEF Inv
<1> QED BY <1>1, AlwaysInv, PTL

-----------------------------------------------------------------------------
(* Documents: confirmations                                                *)

ConfirmInv == PostedAsConfirmed /\ StaleInv

LEMMA ConfirmStep == Inv /\ ConfirmInv /\ [Next]_vars => ConfirmInv'
<1> SUFFICES ASSUME Inv, ConfirmInv, [Next]_vars PROVE ConfirmInv'
    OBVIOUS
<1> USE DEF ConfirmInv, PostedAsConfirmed, StaleInv
<1>1. ASSUME NEW d \in Doc, CommitUpload(d) PROVE ConfirmInv'
    BY <1>1 DEF CommitUpload, Inv, TypeOK
<1>2. ASSUME NEW w \in Worker, Persist(w) PROVE ConfirmInv'
    <2>1. hand[w] \in Doc
        BY <1>2 DEF Persist, Inv, HoldInv
    <2> QED BY <1>2, <2>1 DEF Persist, Inv, TypeOK
<1>3. ASSUME NEW v \in Reviewer, NEW S \in SUBSET Verification, NEW income \in BOOLEAN,
             Confirm(v, S, income)
      PROVE  ConfirmInv'
    <2>1. form[v] \in Doc
        BY <1>3 DEF Confirm, Inv, TypeOK
    <2> QED BY <1>3, <2>1 DEF Confirm, Inv, TypeOK
<1>4. CASE UNCHANGED <<status, posted, confirmed, stale>>
    BY <1>4
<1> QED BY <1>1, <1>2, <1>3, <1>4
        DEF Next, WorkerStep, vars, PutObject, Deliver, Classify, Ack, Fail, Crash, OpenForm, Request

LEMMA AlwaysConfirmInv == Spec => []ConfirmInv
<1>1. Init => ConfirmInv
    BY DEF Init, ConfirmInv, PostedAsConfirmed, StaleInv
<1> QED BY <1>1, ConfirmStep, AlwaysInv, PTL DEF Spec

\* Income is posted and a document confirmed only with the event of the
\* confirmation.
THEOREM PostedIsConfirmed == Spec => []PostedAsConfirmed
<1>1. ConfirmInv => PostedAsConfirmed
    BY DEF ConfirmInv
<1> QED BY <1>1, AlwaysConfirmInv, PTL

\* A document is confirmed twice only from an outdated page or after a late
\* delivery.
THEOREM ConfirmedOnceUnlessStale == Spec => []ConfirmedTwiceOnlyIfStale
<1>1. ConfirmInv => ConfirmedTwiceOnlyIfStale
    BY DEF ConfirmInv, StaleInv, ConfirmedTwiceOnlyIfStale
<1> QED BY <1>1, AlwaysConfirmInv, PTL

-----------------------------------------------------------------------------
(* Documents: deliveries                                                   *)

LEMMA CountStep == Inv /\ CountInv /\ [Next]_vars => CountInv'
<1> SUFFICES ASSUME Inv, CountInv, [Next]_vars PROVE CountInv'
    OBVIOUS
<1> USE DEF CountInv, Classified, Inv, TypeOK, HoldInv
<1>1. ASSUME NEW d \in Doc, CommitUpload(d) PROVE CountInv'
    BY <1>1 DEF CommitUpload
<1>2. ASSUME NEW w \in Worker, NEW d \in Doc, Deliver(w, d) PROVE CountInv'
    <2>1. /\ reads'[d] = reads[d] + 1 /\ \A e \in Doc \ {d} : reads'[e] = reads[e]
          /\ hand'[w] = d /\ stage'[w] = "read" /\ status' = status
          /\ \A u \in Worker \ {w} : hand'[u] = hand[u] /\ stage'[u] = stage[u]
        BY <1>2 DEF Deliver
    <2>2. \A e \in Doc : reads[e] \in Nat
        OBVIOUS
    <2> QED BY <2>1, <2>2
<1>3. ASSUME NEW w \in Worker, NEW M \in SUBSET Verification, Classify(w, M) PROVE CountInv'
    BY <1>3 DEF Classify
<1>4. ASSUME NEW w \in Worker, Persist(w) PROVE CountInv'
    BY <1>4 DEF Persist
<1>5. ASSUME NEW w \in Worker, Ack(w) \/ Fail(w) \/ Crash(w) PROVE CountInv'
    <2>1. /\ stage'[w] = "idle" /\ reads' = reads /\ status' = status
          /\ \A u \in Worker \ {w} : hand'[u] = hand[u] /\ stage'[u] = stage[u]
        BY <1>5 DEF Ack, Fail, Crash, Idle
    <2> QED BY <2>1
<1>6. ASSUME NEW v \in Reviewer, NEW S \in SUBSET Verification, NEW income \in BOOLEAN,
             Confirm(v, S, income)
      PROVE  CountInv'
    BY <1>6 DEF Confirm
<1>7. CASE UNCHANGED <<status, reads, hand, stage>>
    BY <1>7
<1> QED BY <1>1, <1>2, <1>3, <1>4, <1>5, <1>6, <1>7
        DEF Next, WorkerStep, vars, PutObject, OpenForm, Request

\* A confirmed document leaves that status only behind a second delivery.
THEOREM RegressionIsRedelivery == Spec => RegressesOnlyByRedelivery
<1>1. Init => CountInv
    BY DEF Init, CountInv, Classified
<1>2. Spec => []CountInv
    BY <1>1, CountStep, AlwaysInv, PTL DEF Spec
<1>3. Inv /\ CountInv /\ [Next]_vars =>
          [\A d \in Doc : status[d] = "CONFIRMED" /\ status'[d] # "CONFIRMED" => reads[d] > 1]_vars
    <2> SUFFICES ASSUME Inv, CountInv, Next, NEW d \in Doc, status[d] = "CONFIRMED",
                        status'[d] # "CONFIRMED"
                 PROVE  reads[d] > 1
        OBVIOUS
    <2>1. ASSUME NEW w \in Worker, Persist(w) PROVE reads[d] > 1
        BY <2>1 DEF Persist, CountInv, Classified, Inv, TypeOK
    <2>2. ASSUME NEW e \in Doc, CommitUpload(e) PROVE reads[d] > 1
        BY <2>2 DEF CommitUpload, Inv, TypeOK
    <2>3. ASSUME NEW v \in Reviewer, NEW S \in SUBSET Verification, NEW income \in BOOLEAN,
                 Confirm(v, S, income)
          PROVE  reads[d] > 1
        BY <2>3 DEF Confirm, Inv, TypeOK
    <2> QED BY <2>1, <2>2, <2>3
            DEF Next, WorkerStep, PutObject, Deliver, Classify, Ack, Fail, Crash, OpenForm, Request
<1> QED BY <1>2, <1>3, AlwaysInv, PTL DEF Spec, RegressesOnlyByRedelivery

-----------------------------------------------------------------------------
USE MoneyAssumption, CalendarAssumption

-----------------------------------------------------------------------------
(* Determination: arithmetic                                               *)

LEMMA ProductType == \A a, b \in Nat : a * b \in Nat
OBVIOUS

LEMMA ProductGrows == \A k \in Nat : \A a, b \in Int : a <= b => k * a <= k * b
OBVIOUS

LEMMA QuotientType == \A a \in Nat : \A m \in Nat \ {0} : a \div m \in Nat
OBVIOUS

LEMMA QuotientGrows == \A a, b \in Nat : \A m \in Nat \ {0} : a <= b => a \div m <= b \div m
OBVIOUS

-----------------------------------------------------------------------------
(* Determination: the decisions of the model                               *)

\* Every decision on an amount is one that is not negative.
LEMMA IncomeTypes ==
    ASSUME NEW f \in Facts, NEW p \in Figures
    PROVE  /\ GrossIncome(f) \in Nat
           /\ MedicalExpenseDeduction(f, p) \in Nat
           /\ AdjustedIncome(f, p) \in Nat
<1>1. f.earned \in Nat /\ f.unearned \in Nat /\ f.care \in Nat /\ f.medical \in Nat
    BY DEF Facts
<1>2. p.standard \in Nat /\ p.earnedRate \in Nat /\ p.medicalThreshold \in Nat
    BY DEF Figures
<1>3. GrossIncome(f) \in Nat /\ MedicalExpenseDeduction(f, p) \in Nat
    BY <1>1, <1>2 DEF GrossIncome, MedicalExpenseDeduction, Floor0
<1>4. f.earned * p.earnedRate \in Nat
    BY <1>1, <1>2, ProductType
<1>5. RateUnit * (GrossIncome(f) - p.standard - f.care - MedicalExpenseDeduction(f, p)) \in Int
    BY <1>1, <1>2, <1>3
<1>6. AdjustedIncome(f, p) \in Nat
    BY <1>4, <1>5 DEF AdjustedIncome, Floor0
<1> QED BY <1>3, <1>6

LEMMA ShelterTypes ==
    ASSUME NEW f \in Facts, NEW p \in Figures
    PROVE  /\ ShelterExcess(f, p) \in Nat
           /\ ExcessShelterDeduction(f, p) \in Nat
           /\ NetIncome(f, p) \in Nat
<1>1. f.shelter \in Nat /\ f.utility \in Nat /\ p.shelterShare \in Nat /\ p.shelterCap \in Nat
    BY DEF Facts, Figures
<1>2. RateUnit * RateUnit \in Nat
    BY ProductType
<1>3. RateUnit * RateUnit * (f.shelter + f.utility) \in Nat /\ RateUnit * RateUnit * p.shelterCap \in Nat
    BY <1>1, <1>2, ProductType
<1>4. p.shelterShare * AdjustedIncome(f, p) \in Nat /\ RateUnit * AdjustedIncome(f, p) \in Nat
    BY <1>1, IncomeTypes, ProductType
<1>5. ShelterExcess(f, p) \in Nat
    BY <1>3, <1>4 DEF ShelterExcess, Floor0
<1>6. ExcessShelterDeduction(f, p) \in Nat
    BY <1>3, <1>5 DEF ExcessShelterDeduction, Least
<1>7. NetIncome(f, p) \in Nat
    BY <1>4, <1>6 DEF NetIncome, Floor0
<1> QED BY <1>5, <1>6, <1>7

\* What ComputedBenefit divides by.
BenefitScale == Dollar * RateUnit * RateUnit * RateUnit

LEMMA ScaleTypes == Dollar \in Nat \ {0} /\ BenefitScale \in Nat \ {0}
<1>1. Dollar \in Nat \ {0}
    BY DEF Dollar
<1>2. \A a, b \in Nat \ {0} : a * b \in Nat \ {0}
    OBVIOUS
<1> QED BY <1>1, <1>2 DEF BenefitScale

LEMMA BenefitTypes ==
    ASSUME NEW f \in Facts, NEW p \in Figures
    PROVE  /\ NetIncome(f, p) * p.reductionRate \in Nat
           /\ ComputedBenefit(f, p) \in Nat
           /\ BenefitAmount(f, p) \in Nat
<1>1. p.maxAllotment \in Nat /\ p.minimum \in Nat /\ p.reductionRate \in Nat
    BY DEF Figures
<1>2. NetIncome(f, p) * p.reductionRate \in Nat
    BY <1>1, ShelterTypes, ProductType
<1>3. CeilingOf(NetIncome(f, p) * p.reductionRate, BenefitScale) \in Nat
    BY <1>2, ScaleTypes, QuotientType DEF CeilingOf
<1>4. Dollar * CeilingOf(NetIncome(f, p) * p.reductionRate, BenefitScale) \in Nat
    BY <1>3, ScaleTypes, ProductType
<1>5. ComputedBenefit(f, p) \in Nat
    BY <1>1, <1>4 DEF ComputedBenefit, Floor0, BenefitScale
<1> QED BY <1>1, <1>2, <1>5 DEF BenefitAmount

\* The amount is paid to the cent, which no amount below zero comes of.
LEMMA MoneyTypes == \A x \in Nat : Money(x) \in Nat
<1> SUFFICES ASSUME NEW x \in Nat PROVE Money(x) \in Nat
    OBVIOUS
<1>1. (2 * x + Cent) \div (2 * Cent) \in Nat
    BY QuotientType
<1> QED BY <1>1, ProductType DEF Money

LEMMA MoneyGrows == \A x, y \in Nat : x <= y => Money(x) <= Money(y)
<1> SUFFICES ASSUME NEW x \in Nat, NEW y \in Nat, x <= y PROVE Money(x) <= Money(y)
    OBVIOUS
<1> DEFINE a == (2 * x + Cent) \div (2 * Cent)
           b == (2 * y + Cent) \div (2 * Cent)
<1>1. 2 * x + Cent \in Nat /\ 2 * y + Cent \in Nat /\ 2 * Cent \in Nat \ {0}
    OBVIOUS
<1>2. 2 * x + Cent <= 2 * y + Cent
    OBVIOUS
<1>3. a \in Nat /\ b \in Nat
    BY <1>1, QuotientType
<1>4. a <= b
    BY <1>1, <1>2, QuotientGrows
<1> HIDE DEF a, b
<1>5. Cent * a <= Cent * b
    BY <1>3, <1>4, ProductGrows
<1> QED BY <1>5 DEF Money, a, b

-----------------------------------------------------------------------------
(* Determination: the decisions of two households compared                 *)

LEMMA WellOffFacts ==
    ASSUME NEW f \in Facts, NEW g \in Facts, AtLeastAsWellOff(f, g)
    PROVE  /\ f.size = g.size
           /\ f.earned >= g.earned /\ f.unearned >= g.unearned
           /\ f.care <= g.care /\ f.medical <= g.medical
           /\ f.shelter <= g.shelter /\ f.utility <= g.utility
           /\ (f.elderly => g.elderly) /\ (f.categorical => g.categorical)
BY DEF AtLeastAsWellOff

\* More income and fewer deductions leave more of it adjusted: the earned
\* deduction takes at most what was earned.
LEMMA AdjustedGrows ==
    ASSUME NEW f \in Facts, NEW g \in Facts, NEW p \in Figures, AtLeastAsWellOff(f, g)
    PROVE  /\ GrossIncome(g) <= GrossIncome(f)
           /\ AdjustedIncome(g, p) <= AdjustedIncome(f, p)
<1>1. /\ f.earned \in Nat /\ f.unearned \in Nat /\ f.care \in Nat /\ f.medical \in Nat
      /\ g.earned \in Nat /\ g.unearned \in Nat /\ g.care \in Nat /\ g.medical \in Nat
    BY DEF Facts
<1>2. p.standard \in Nat /\ p.earnedRate \in Nat /\ p.earnedRate <= RateUnit /\ p.medicalThreshold \in Nat
    BY DEF Figures
<1>3. GrossIncome(g) <= GrossIncome(f)
    BY <1>1, WellOffFacts DEF GrossIncome
<1>4. MedicalExpenseDeduction(f, p) <= MedicalExpenseDeduction(g, p)
    BY <1>1, <1>2, WellOffFacts DEF MedicalExpenseDeduction, Floor0
<1> DEFINE rest(h) == h.unearned - p.standard - h.care - MedicalExpenseDeduction(h, p)
           kept == RateUnit - p.earnedRate
<1>5. rest(f) \in Int /\ rest(g) \in Int /\ rest(g) <= rest(f) /\ kept \in Nat
    BY <1>1, <1>2, <1>4, IncomeTypes, WellOffFacts
<1>6. ASSUME NEW h \in Facts
      PROVE  RateUnit * (GrossIncome(h) - p.standard - h.care - MedicalExpenseDeduction(h, p))
                 - h.earned * p.earnedRate = RateUnit * rest(h) + kept * h.earned
    <2>1. h.earned \in Nat /\ rest(h) \in Int
        BY <1>2, IncomeTypes DEF Facts
    <2>2. GrossIncome(h) - p.standard - h.care - MedicalExpenseDeduction(h, p) = h.earned + rest(h)
        BY <1>2, IncomeTypes DEF Facts, GrossIncome
    <2> HIDE DEF rest
    <2>3. RateUnit * (h.earned + rest(h)) - h.earned * p.earnedRate = RateUnit * rest(h) + kept * h.earned
        BY <1>2, <2>1
    <2> QED BY <2>2, <2>3
<1> HIDE DEF rest, kept
<1>7. RateUnit * rest(g) <= RateUnit * rest(f) /\ kept * g.earned <= kept * f.earned
    BY <1>1, <1>5, ProductGrows, WellOffFacts
<1>8. /\ RateUnit * rest(g) \in Int /\ RateUnit * rest(f) \in Int
      /\ kept * g.earned \in Int /\ kept * f.earned \in Int
    BY <1>1, <1>5
<1>9. RateUnit * rest(g) + kept * g.earned <= RateUnit * rest(f) + kept * f.earned
    BY <1>7, <1>8
<1>10. AdjustedIncome(g, p) <= AdjustedIncome(f, p)
    BY <1>6, <1>8, <1>9 DEF AdjustedIncome, Floor0
<1> QED BY <1>3, <1>10

\* What shelter costs beyond the share of the income never makes up for it.
LEMMA NetGrows ==
    ASSUME NEW f \in Facts, NEW g \in Facts, NEW p \in Figures, AtLeastAsWellOff(f, g)
    PROVE  NetIncome(g, p) <= NetIncome(f, p)
<1>1. /\ f.shelter \in Nat /\ f.utility \in Nat /\ g.shelter \in Nat /\ g.utility \in Nat
      /\ p.shelterShare \in Nat /\ p.shelterCap \in Nat
    BY DEF Facts, Figures
<1> DEFINE square == RateUnit * RateUnit
<1>2. square \in Nat
    BY ProductType
<1> HIDE DEF square
<1>3. square * (f.shelter + f.utility) <= square * (g.shelter + g.utility)
    BY <1>1, <1>2, ProductGrows, WellOffFacts
<1>4. p.shelterShare * AdjustedIncome(g, p) <= p.shelterShare * AdjustedIncome(f, p)
    BY <1>1, AdjustedGrows, IncomeTypes, ProductGrows
<1>5. /\ square * (f.shelter + f.utility) \in Nat /\ square * (g.shelter + g.utility) \in Nat
      /\ p.shelterShare * AdjustedIncome(f, p) \in Nat /\ p.shelterShare * AdjustedIncome(g, p) \in Nat
      /\ square * p.shelterCap \in Nat
    BY <1>1, <1>2, IncomeTypes, ProductType
<1>6. ShelterExcess(f, p) <= ShelterExcess(g, p)
    BY <1>3, <1>4, <1>5 DEF ShelterExcess, Floor0, square
<1>7. ExcessShelterDeduction(f, p) <= ExcessShelterDeduction(g, p)
    BY <1>5, <1>6, ShelterTypes, WellOffFacts DEF ExcessShelterDeduction, Least, square
<1>8. RateUnit * AdjustedIncome(g, p) <= RateUnit * AdjustedIncome(f, p)
    BY AdjustedGrows, IncomeTypes, ProductGrows
<1>9. RateUnit * AdjustedIncome(g, p) \in Nat /\ RateUnit * AdjustedIncome(f, p) \in Nat
    BY IncomeTypes, ProductType
<1> QED BY <1>7, <1>8, <1>9, ShelterTypes DEF NetIncome, Floor0

LEMMA TestsGrow ==
    ASSUME NEW f \in Facts, NEW g \in Facts, NEW p \in Figures, AtLeastAsWellOff(f, g), ~ Fails(f, p)
    PROVE  ~ Fails(g, p)
<1>1. RateUnit * RateUnit * p.netLimit \in Nat /\ p.grossLimit \in Nat
    BY ProductType DEF Figures
<1>2. GrossIncomeTest(g, p) # "FAIL"
    BY <1>1, AdjustedGrows, IncomeTypes, WellOffFacts DEF Fails, GrossIncomeTest, GrossTestExempt
<1>3. NetIncomeTest(g, p) # "FAIL"
    BY <1>1, NetGrows, ShelterTypes, WellOffFacts DEF Fails, NetIncomeTest
<1> QED BY <1>2, <1>3 DEF Fails

LEMMA BenefitGrows ==
    ASSUME NEW f \in Facts, NEW g \in Facts, NEW p \in Figures, AtLeastAsWellOff(f, g)
    PROVE  ComputedBenefit(f, p) <= ComputedBenefit(g, p)
<1>1. p.maxAllotment \in Nat /\ p.reductionRate \in Nat
    BY DEF Figures
<1> DEFINE due(h) == NetIncome(h, p) * p.reductionRate
           up(h)  == CeilingOf(due(h), BenefitScale)
<1>2. due(f) \in Nat /\ due(g) \in Nat
    BY BenefitTypes
<1>3. due(g) <= due(f)
    <2>1. NetIncome(g, p) * p.reductionRate = p.reductionRate * NetIncome(g, p)
        BY <1>1, ShelterTypes
    <2>2. NetIncome(f, p) * p.reductionRate = p.reductionRate * NetIncome(f, p)
        BY <1>1, ShelterTypes
    <2>3. p.reductionRate * NetIncome(g, p) <= p.reductionRate * NetIncome(f, p)
        BY <1>1, NetGrows, ShelterTypes, ProductGrows
    <2> QED BY <2>1, <2>2, <2>3
<1> HIDE DEF due
<1>4. up(f) \in Nat /\ up(g) \in Nat /\ up(g) <= up(f)
    <2>1. /\ due(g) + BenefitScale - 1 \in Nat /\ due(f) + BenefitScale - 1 \in Nat
          /\ due(g) + BenefitScale - 1 <= due(f) + BenefitScale - 1
        BY <1>2, <1>3, ScaleTypes
    <2> QED BY <2>1, ScaleTypes, QuotientType, QuotientGrows DEF CeilingOf
<1> HIDE DEF up
<1>5. /\ Dollar * up(f) \in Nat /\ Dollar * up(g) \in Nat /\ Dollar * up(g) <= Dollar * up(f)
    BY <1>4, ScaleTypes, ProductType, ProductGrows
<1>6. \A h : ComputedBenefit(h, p) = Floor0(p.maxAllotment - Dollar * up(h))
    BY DEF ComputedBenefit, BenefitScale, up, due
<1> QED BY <1>1, <1>5, <1>6 DEF Floor0

\* A household worse off than another is paid no less, unless the other is
\* paid the minimum benefit or nothing.
LEMMA AmountGrows ==
    ASSUME NEW f \in Facts, NEW g \in Facts, NEW p \in Figures, AtLeastAsWellOff(f, g),
           ComputedBenefit(f, p) # 0
    PROVE  /\ BenefitAmount(f, p) <= BenefitAmount(g, p)
           /\ ~ Fails(f, p) => ~ Fails(g, p) /\ BenefitAmount(g, p) > 0
<1>1. ComputedBenefit(f, p) > 0 /\ ComputedBenefit(g, p) > 0
    BY BenefitTypes, BenefitGrows
<1>2. CASE Fails(f, p)
    BY <1>2, BenefitTypes DEF BenefitAmount
<1>3. CASE ~ Fails(f, p)
    BY <1>1, <1>3, TestsGrow, BenefitTypes, BenefitGrows DEF BenefitAmount
<1> QED BY <1>2, <1>3

\* No model pays a household less for being worse off.
LEMMA NeedMonotone ==
    ASSUME NEW m, NEW f \in Facts, NEW g \in Facts, NEW p \in Figures, AtLeastAsWellOff(f, g)
    PROVE  \/ Evaluate(m, f, p).amount <= Evaluate(m, g, p).amount
           \/ ComputedBenefit(f, p) = 0
<1> SUFFICES ASSUME ComputedBenefit(f, p) # 0
             PROVE  Evaluate(m, f, p).amount <= Evaluate(m, g, p).amount
    OBVIOUS
<1>1. /\ Money(BenefitAmount(f, p)) \in Nat /\ Money(BenefitAmount(g, p)) \in Nat
      /\ Money(BenefitAmount(f, p)) <= Money(BenefitAmount(g, p))
    BY AmountGrows, BenefitTypes, MoneyTypes, MoneyGrows
<1>2. \A h : Evaluate(m, h, p).amount =
                 IF m = "shipped" THEN Money(BenefitAmount(h, p))
                 ELSE IF ~ Fails(h, p) /\ BenefitAmount(h, p) > 0
                      THEN Money(BenefitAmount(h, p)) + Dollar ELSE 0
    BY DEF Evaluate, Decision
<1> QED BY <1>1, <1>2, AmountGrows, ScaleTypes

-----------------------------------------------------------------------------
(* Determination: sums over records                                        *)

\* Induction, over a set of numbers.
LEMMA NumbersInduction ==
    ASSUME NEW T, 0 \in T, \A n \in Nat \ {0} : n - 1 \in T => n \in T
    PROVE  Nat \subseteq T
<1> DEFINE Rest == Nat \ T
<1> SUFFICES ASSUME Rest # {} PROVE FALSE
    OBVIOUS
<1>1. PICK m \in Rest : \A k \in Rest : ~ (<<k, m>> \in OpToRel(<, Nat))
    BY NatLessThanWellFounded, WFMin
<1>2. m \in Nat \ {0} /\ m - 1 \in Nat /\ m - 1 < m
    OBVIOUS
<1>3. m - 1 \in T
    <2> SUFFICES ASSUME m - 1 \in Rest PROVE <<m - 1, m>> \in OpToRel(<, Nat)
        BY <1>1, <1>2
    <2> QED BY <1>2 DEF OpToRel
<1> QED BY <1>2, <1>3

\* f holds the sums of the first amounts of s with an index in I.
Part(s, I, n) == IF n \in I THEN s[n].amount ELSE 0
IsSum(f, s, I, m) == f = [n \in 0..m |-> IF n = 0 THEN 0 ELSE f[n - 1] + Part(s, I, n)]

LEMMA SumsExist ==
    ASSUME NEW s, NEW I
    PROVE  \A m \in Nat : \E f : IsSum(f, s, I, m)
<1> DEFINE T == {m \in Nat : \E f : IsSum(f, s, I, m)}
<1>1. 0 \in T
    <2>1. IsSum([n \in 0..0 |-> 0], s, I, 0)
        BY DEF IsSum
    <2> QED BY <2>1
<1>2. ASSUME NEW m \in Nat \ {0}, m - 1 \in T PROVE m \in T
    <2>1. PICK f : IsSum(f, s, I, m - 1)
        BY <1>2
    <2> DEFINE g == [n \in 0..m |-> IF n = 0 THEN 0 ELSE f[n - 1] + Part(s, I, n)]
    <2>2. \A n \in 0..(m - 1) : g[n] = f[n]
        BY <2>1 DEF IsSum
    <2>3. \A n \in 0..m : g[n] = IF n = 0 THEN 0 ELSE g[n - 1] + Part(s, I, n)
        BY <2>2
    <2>4. g = [n \in 0..m |-> IF n = 0 THEN 0 ELSE g[n - 1] + Part(s, I, n)]
        BY <2>3
    <2> HIDE DEF g
    <2>5. IsSum(g, s, I, m)
        BY <2>4 DEF IsSum
    <2> QED BY <2>5
<1>3. Nat \subseteq T
    <2> HIDE DEF T
    <2> QED BY <1>1, <1>2, NumbersInduction
<1> QED BY <1>3

LEMMA TotalDef ==
    ASSUME NEW s, NEW I, Len(s) \in Nat
    PROVE  \E f : IsSum(f, s, I, Len(s)) /\ Total(s, I) = f[Len(s)]
<1>1. \E f : IsSum(f, s, I, Len(s))
    BY SumsExist
<1> QED BY <1>1 DEF Total, IsSum, Part

LEMMA SumSteps ==
    ASSUME NEW s, NEW I, NEW m \in Nat, NEW f, IsSum(f, s, I, m)
    PROVE  f[0] = 0 /\ \A n \in 1..m : f[n] = f[n - 1] + Part(s, I, n)
BY DEF IsSum

Amounts(s) == Len(s) \in Nat /\ \A n \in 1..Len(s) : s[n].amount \in Nat

LEMMA TotalType ==
    ASSUME NEW s, NEW I, Amounts(s)
    PROVE  Total(s, I) \in Nat
<1>1. PICK f : IsSum(f, s, I, Len(s)) /\ Total(s, I) = f[Len(s)]
    BY TotalDef DEF Amounts
<1>2. f[0] = 0 /\ \A n \in 1..Len(s) : f[n] = f[n - 1] + Part(s, I, n)
    <2>1. Len(s) \in Nat
        BY DEF Amounts
    <2> QED BY <1>1, <2>1 DEF IsSum
<1> DEFINE T == {n \in Nat : n <= Len(s) => f[n] \in Nat}
<1>3. 0 \in T
    BY <1>2
<1>4. ASSUME NEW n \in Nat \ {0}, n - 1 \in T PROVE n \in T
    BY <1>2, <1>4 DEF Amounts, Part
<1>5. Nat \subseteq T
    <2> HIDE DEF T
    <2> QED BY <1>3, <1>4, NumbersInduction
<1> QED BY <1>1, <1>5 DEF Amounts

\* Records counted apart are counted together.
LEMMA TotalSplit ==
    ASSUME NEW s, NEW I, NEW J, Amounts(s), I \cap J = {}
    PROVE  Total(s, I \cup J) = Total(s, I) + Total(s, J)
<1> DEFINE K == I \cup J
<1> HIDE DEF K
<1>1. PICK f : IsSum(f, s, I, Len(s)) /\ Total(s, I) = f[Len(s)]
    BY TotalDef DEF Amounts
<1>2. PICK g : IsSum(g, s, J, Len(s)) /\ Total(s, J) = g[Len(s)]
    BY TotalDef DEF Amounts
<1>3. PICK h : IsSum(h, s, K, Len(s)) /\ Total(s, K) = h[Len(s)]
    BY TotalDef DEF Amounts
<1>4. /\ f[0] = 0 /\ g[0] = 0 /\ h[0] = 0
      /\ \A n \in 1..Len(s) : /\ f[n] = f[n - 1] + Part(s, I, n)
                              /\ g[n] = g[n - 1] + Part(s, J, n)
                              /\ h[n] = h[n - 1] + Part(s, K, n)
    <2>1. Len(s) \in Nat
        BY DEF Amounts
    <2>2. f[0] = 0 /\ \A n \in 1..Len(s) : f[n] = f[n - 1] + Part(s, I, n)
        BY <1>1, <2>1 DEF IsSum
    <2>3. g[0] = 0 /\ \A n \in 1..Len(s) : g[n] = g[n - 1] + Part(s, J, n)
        BY <1>2, <2>1 DEF IsSum
    <2>4. h[0] = 0 /\ \A n \in 1..Len(s) : h[n] = h[n - 1] + Part(s, K, n)
        BY <1>3, <2>1 DEF IsSum
    <2> QED BY <2>2, <2>3, <2>4
<1>5. \A n \in 1..Len(s) : /\ Part(s, I, n) \in Nat /\ Part(s, J, n) \in Nat
                           /\ Part(s, K, n) = Part(s, I, n) + Part(s, J, n)
    BY DEF Amounts, Part, K
<1> DEFINE T == {n \in Nat : n <= Len(s) => f[n] \in Nat /\ g[n] \in Nat /\ h[n] = f[n] + g[n]}
<1>6. 0 \in T
    BY <1>4
<1>7. ASSUME NEW n \in Nat \ {0}, n - 1 \in T PROVE n \in T
    <2> SUFFICES ASSUME n <= Len(s)
                 PROVE  f[n] \in Nat /\ g[n] \in Nat /\ h[n] = f[n] + g[n]
        OBVIOUS
    <2>1. Len(s) \in Nat
        BY DEF Amounts
    <2>2. n \in 1..Len(s) /\ n - 1 <= Len(s)
        BY <2>1
    <2>3. f[n - 1] \in Nat /\ g[n - 1] \in Nat /\ h[n - 1] = f[n - 1] + g[n - 1]
        BY <1>7, <2>2
    <2>4. /\ f[n] = f[n - 1] + Part(s, I, n)
          /\ g[n] = g[n - 1] + Part(s, J, n)
          /\ h[n] = h[n - 1] + Part(s, K, n)
        BY <1>4, <2>2
    <2>5. /\ Part(s, I, n) \in Nat /\ Part(s, J, n) \in Nat
          /\ Part(s, K, n) = Part(s, I, n) + Part(s, J, n)
        BY <1>5, <2>2
    <2>6. f[n] \in Nat /\ g[n] \in Nat
        BY <2>3, <2>4, <2>5
    <2>7. h[n] = (f[n - 1] + g[n - 1]) + (Part(s, I, n) + Part(s, J, n))
        BY <2>3, <2>4, <2>5
    <2>8. \A a, b, x, y \in Nat : (a + b) + (x + y) = (a + x) + (b + y)
        OBVIOUS
    <2>9. (f[n - 1] + g[n - 1]) + (Part(s, I, n) + Part(s, J, n)) =
              (f[n - 1] + Part(s, I, n)) + (g[n - 1] + Part(s, J, n))
        BY <2>3, <2>5, <2>8
    <2>10. h[n] = f[n] + g[n]
        BY <2>4, <2>7, <2>9
    <2> QED BY <2>6, <2>10
<1>8. Nat \subseteq T
    <2> HIDE DEF T
    <2> QED BY <1>6, <1>7, NumbersInduction
<1> QED BY <1>1, <1>2, <1>3, <1>8 DEF Amounts, K

-----------------------------------------------------------------------------
(* Determination: the facts of a household                                 *)

LEMMA HouseholdFacts ==
    ASSUME NEW h \in Household
    PROVE  /\ Amounts(h.incomes) /\ Amounts(h.expenses)
           /\ DOMAIN h.incomes = 1..Len(h.incomes) /\ DOMAIN h.expenses = 1..Len(h.expenses)
           /\ \A i \in DOMAIN h.incomes : h.incomes[i] \in IncomeRecord
           /\ \A i \in DOMAIN h.expenses : h.expenses[i] \in ExpenseRecord
           /\ h.size \in Nat /\ h.liquid \in Nat /\ h.elderlyFrom \in Nat
<1>1. h \in [size : Nat, incomes : Seq(IncomeRecord), expenses : Seq(ExpenseRecord),
             elderlyFrom : Date \cup {Open}, liquid : Nat]
    BY HouseholdAssumption
<1>2. h.incomes \in Seq(IncomeRecord) /\ h.expenses \in Seq(ExpenseRecord)
    BY <1>1
<1>3. /\ \A x \in IncomeRecord : x.amount \in Nat
      /\ \A x \in ExpenseRecord : x.amount \in Nat
    BY DEF IncomeRecord, ExpenseRecord
<1>4. h.size \in Nat /\ h.liquid \in Nat /\ h.elderlyFrom \in Nat
    BY <1>1 DEF Date, Open
<1> QED BY <1>2, <1>3, <1>4 DEF Amounts

LEMMA AssembleType ==
    ASSUME NEW h \in Household, NEW d \in Date
    PROVE  Assemble(h, d) \in Facts /\ Assemble(h, d).size = h.size
<1>1. \A I : Total(h.incomes, I) \in Nat /\ Total(h.expenses, I) \in Nat
    BY HouseholdFacts, TotalType
<1>2. h.size \in Nat /\ (h.elderlyFrom <= d) \in BOOLEAN
    BY HouseholdFacts
<1> QED BY <1>1, <1>2 DEF Assemble, Facts

\* Where every record is in force, intake and the assembled facts agree on
\* the income, and on rent and utilities together.
LEMMA FiledAsAssembled ==
    ASSUME NEW h \in Household, NEW d \in Date,
           \A i \in DOMAIN h.incomes : InForce(h.incomes[i], d),
           \A i \in DOMAIN h.expenses : InForce(h.expenses[i], d)
    PROVE  ExpeditedAsFiled(h) =
               IsExpedited(GrossIncome(Assemble(h, d)), h.liquid,
                           Assemble(h, d).shelter + Assemble(h, d).utility)
<1> DEFINE inc(e) == {i \in DOMAIN h.incomes : InForce(h.incomes[i], d) /\ h.incomes[i].earned = e}
           exp(T) == {i \in DOMAIN h.expenses : InForce(h.expenses[i], d) /\ h.expenses[i].type \in T}
           rent   == {"RENT_OR_MORTGAGE", "PROPERTY_TAX", "HOME_INSURANCE"}
<1>1. \A i \in DOMAIN h.incomes : h.incomes[i].earned \in BOOLEAN
    BY HouseholdFacts DEF IncomeRecord
<1>2. inc(TRUE) \cup inc(FALSE) = DOMAIN h.incomes /\ inc(TRUE) \cap inc(FALSE) = {}
    BY <1>1
<1>3. Total(h.incomes, DOMAIN h.incomes) = Total(h.incomes, inc(TRUE)) + Total(h.incomes, inc(FALSE))
    <2> HIDE DEF inc
    <2>1. Total(h.incomes, inc(TRUE) \cup inc(FALSE)) =
              Total(h.incomes, inc(TRUE)) + Total(h.incomes, inc(FALSE))
        BY <1>2, HouseholdFacts, TotalSplit
    <2> QED BY <1>2, <2>1
<1>4. /\ exp(rent) \cap exp({"UTILITIES"}) = {}
      /\ exp(rent) \cup exp({"UTILITIES"}) =
             {i \in DOMAIN h.expenses : h.expenses[i].type \in ShelterExpenseTypes}
    BY DEF ShelterExpenseTypes
<1>5. Total(h.expenses, {i \in DOMAIN h.expenses : h.expenses[i].type \in ShelterExpenseTypes}) =
          Total(h.expenses, exp(rent)) + Total(h.expenses, exp({"UTILITIES"}))
    <2> HIDE DEF exp, rent
    <2> QED BY <1>4, HouseholdFacts, TotalSplit
<1>6. /\ GrossIncome(Assemble(h, d)) = Total(h.incomes, inc(TRUE)) + Total(h.incomes, inc(FALSE))
      /\ Assemble(h, d).shelter = Total(h.expenses, exp(rent))
      /\ Assemble(h, d).utility = Total(h.expenses, exp({"UTILITIES"}))
    BY DEF Assemble, GrossIncome
<1> QED BY <1>3, <1>5, <1>6 DEF ExpeditedAsFiled

-----------------------------------------------------------------------------
(* Determination: types                                                    *)

Models == {"shipped", "later"}

Reasons == {"GROSS_INCOME_EXCEEDS_LIMIT", "NET_INCOME_EXCEEDS_LIMIT", "ZERO_BENEFIT_AMOUNT", "ELIGIBLE"}

Verdict == [eligible : BOOLEAN, amount : Nat, reason : Reasons]

Recorded == [request : ProgramRequest, asOf : Date, set : DOMAIN FiguresOf, snapshot : Facts,
             model : Models, decision : Verdict]

RangeInv ==
    /\ range \in Seq([from : Date, to : Date \cup {Open}])
    /\ Len(range) \in 1..Len(FiguresOf)

DeterminationTypeOK ==
    /\ filed     \in [ProgramRequest -> Household \cup {NoHousehold}]
    /\ opened    \in [ProgramRequest -> Date \cup {Open}]
    /\ expedited \in [ProgramRequest -> BOOLEAN]
    /\ RangeInv
    /\ model \in Models
    /\ determined \in Seq(Recorded)
    /\ Len(determined) <= MaxDeterminations
    /\ reviews \subseteq [of : 1..MaxDeterminations, error : Int, model : Models]
    /\ queued \in [1..MaxDeterminations -> Nat]
    /\ at     \in [Run -> {"idle", "sampling"}]
    /\ picked \in [Run -> SUBSET (DOMAIN determined)]

LEMMA EvaluateType ==
    ASSUME NEW m \in Models, NEW f \in Facts, NEW p \in Figures
    PROVE  Evaluate(m, f, p) \in Verdict
<1>1. BenefitAmount(f, p) \in Nat /\ Money(BenefitAmount(f, p)) \in Nat /\ Dollar \in Nat
    BY BenefitTypes, MoneyTypes, ScaleTypes
<1>2. ReasonCode(f, p) \in Reasons
    BY DEF ReasonCode, Reasons
<1> DEFINE e == ~ Fails(f, p) /\ BenefitAmount(f, p) > 0
       paid == IF m = "shipped" THEN Money(BenefitAmount(f, p))
               ELSE IF e THEN Money(BenefitAmount(f, p)) + Dollar ELSE 0
<1>3. e \in BOOLEAN /\ paid \in Nat
    BY <1>1 DEF Fails
<1> HIDE DEF e
<1>4. Decision(f, p) = [eligible |-> e, amount |-> BenefitAmount(f, p), reason |-> ReasonCode(f, p)]
    BY DEF Decision, e
<1>5. Evaluate(m, f, p) = [eligible |-> e, amount |-> paid, reason |-> ReasonCode(f, p)]
    <2>1. CASE m = "shipped"
        BY <1>4, <2>1 DEF Evaluate
    <2>2. CASE m # "shipped"
        BY <1>4, <2>2 DEF Evaluate
    <2> QED BY <2>1, <2>2
<1> HIDE DEF paid
<1> QED BY <1>2, <1>3, <1>5 DEF Verdict

LEMMA DetermineFacts ==
    ASSUME DeterminationTypeOK, NEW r \in ProgramRequest, NEW d \in Date, Determine(r, d)
    PROVE  \E s \in DOMAIN range : \E f \in Facts :
             /\ f.size \in DOMAIN FiguresOf[s]
             /\ FiguresOf[s][f.size] \in Figures
             /\ [request |-> r, asOf |-> d, set |-> s, snapshot |-> f, model |-> model,
                 decision |-> Evaluate(model, f, FiguresOf[s][f.size])] \in Recorded
             /\ determined' = Append(determined,
                    [request |-> r, asOf |-> d, set |-> s, snapshot |-> f, model |-> model,
                     decision |-> Evaluate(model, f, FiguresOf[s][f.size])])
             /\ f = Assemble(filed[r], d)
             /\ filed[r] \in Household
<1>1. filed[r] \in Household
    BY DEF Determine, DeterminationTypeOK
<1> DEFINE f == Assemble(filed[r], d)
<1>2. f \in Facts
    BY <1>1, AssembleType
<1> HIDE DEF f
<1>3. PICK s \in DOMAIN range :
          /\ f.size \in DOMAIN FiguresOf[s]
          /\ determined' = Append(determined,
                 [request |-> r, asOf |-> d, set |-> s, snapshot |-> f, model |-> model,
                  decision |-> Evaluate(model, f, FiguresOf[s][f.size])])
    BY DEF Determine, f
<1>4. s \in DOMAIN FiguresOf
    <2>1. DOMAIN range = 1..Len(range)
        BY DEF DeterminationTypeOK, RangeInv
    <2> QED BY <2>1, FiguresAssumption DEF DeterminationTypeOK, RangeInv
<1>5. FiguresOf[s][f.size] \in Figures
    BY <1>3, <1>4, FiguresAssumption
<1>6. Evaluate(model, f, FiguresOf[s][f.size]) \in Verdict
    BY <1>2, <1>5, EvaluateType DEF DeterminationTypeOK
<1>7. [request |-> r, asOf |-> d, set |-> s, snapshot |-> f, model |-> model,
       decision |-> Evaluate(model, f, FiguresOf[s][f.size])] \in Recorded
    BY <1>2, <1>4, <1>6 DEF Recorded, DeterminationTypeOK
<1> QED BY <1>1, <1>2, <1>3, <1>5, <1>7 DEF f

LEMMA ReproduceType ==
    ASSUME NEW i \in DOMAIN determined, DeterminationTypeOK,
           determined[i].snapshot.size \in DOMAIN FiguresOf[determined[i].set]
    PROVE  Reproduce(i) \in Verdict /\ Reproduce(i).amount \in Nat /\ determined[i].decision.amount \in Nat
<1>1. determined[i] \in Recorded
    BY DEF DeterminationTypeOK
<1>2. /\ determined[i].snapshot \in Facts /\ determined[i].set \in DOMAIN FiguresOf
      /\ determined[i].decision.amount \in Nat
    BY <1>1 DEF Recorded, Verdict
<1>3. FiguresOf[determined[i].set][determined[i].snapshot.size] \in Figures
    BY <1>2, FiguresAssumption
<1>4. Reproduce(i) \in Verdict
    BY <1>2, <1>3, EvaluateType DEF Reproduce, DeterminationTypeOK
<1> QED BY <1>2, <1>4 DEF Verdict

-----------------------------------------------------------------------------
(* Determination: the inductive invariant                                  *)

\* A determination holds the decision of its model on its snapshot under its
\* set, on a household of its size.
RecordedInv ==
    \A i \in DOMAIN determined :
        LET d == determined[i] IN
        /\ d.snapshot.size \in DOMAIN FiguresOf[d.set]
        /\ d.decision = Evaluate(d.model, d.snapshot, FiguresOf[d.set][d.snapshot.size])

\* A review is of a recorded determination, the only one of it, and compares
\* it with what the model of the review decides.
ReviewInv ==
    /\ \A rev \in reviews :
        /\ rev.of \in DOMAIN determined
        /\ rev.error = Evaluate(rev.model, determined[rev.of].snapshot,
                                FiguresOf[determined[rev.of].set][determined[rev.of].snapshot.size]).amount
                           - determined[rev.of].decision.amount
    /\ \A rev, other \in reviews : rev.of = other.of => rev = other

MessageInv ==
    \A i \in 1..MaxDeterminations :
        queued[i] = IF \E rev \in reviews : rev.of = i /\ rev.error # 0 THEN 1 ELSE 0

\* What was filed decided whether the request is expedited.
FiledInv ==
    \A r \in ProgramRequest : filed[r] # NoHousehold =>
        opened[r] \in Date /\ expedited[r] = ExpeditedAsFiled(filed[r])

DeterminationInv == DeterminationTypeOK /\ RecordedInv /\ ReviewInv /\ MessageInv /\ FiledInv

LEMMA DeterminationInitInv == DeterminationInit => DeterminationInv
<1> SUFFICES ASSUME DeterminationInit PROVE DeterminationInv
    OBVIOUS
<1> USE DEF DeterminationInit, Date, Open
<1>1. RangeInv
    BY FiguresAssumption DEF RangeInv
<1>2. determined = <<>> /\ DOMAIN determined = {} /\ determined \in Seq(Recorded) /\ Len(determined) = 0
    OBVIOUS
<1>3. DeterminationTypeOK
    BY <1>1, <1>2 DEF DeterminationTypeOK, Models
<1>4. RecordedInv /\ ReviewInv /\ MessageInv /\ FiledInv
    BY <1>2 DEF RecordedInv, ReviewInv, MessageInv, FiledInv
<1> QED BY <1>3, <1>4 DEF DeterminationInv

LEMMA SubmitInv ==
    ASSUME DeterminationInv, NEW r \in ProgramRequest, NEW h \in Household, NEW d \in Date,
           Submit(r, h, d)
    PROVE  DeterminationInv'
<1> USE DEF Submit, qcVars
<1>1. ExpeditedAsFiled(h) \in BOOLEAN
    BY DEF ExpeditedAsFiled, IsExpedited
<1>2. DeterminationTypeOK'
    BY <1>1 DEF DeterminationInv, DeterminationTypeOK, RangeInv
<1>3. FiledInv'
    BY DEF DeterminationInv, FiledInv, DeterminationTypeOK
<1>4. RecordedInv' /\ ReviewInv' /\ MessageInv'
    BY DEF DeterminationInv, RecordedInv, ReviewInv, MessageInv
<1> QED BY <1>2, <1>3, <1>4 DEF DeterminationInv

LEMMA DetermineInv ==
    ASSUME DeterminationInv, NEW r \in ProgramRequest, NEW d \in Date, Determine(r, d)
    PROVE  DeterminationInv'
<1> USE DEF intakeVars, qcVars
<1>1. PICK s \in DOMAIN range, f \in Facts :
          /\ f.size \in DOMAIN FiguresOf[s]
          /\ [request |-> r, asOf |-> d, set |-> s, snapshot |-> f, model |-> model,
              decision |-> Evaluate(model, f, FiguresOf[s][f.size])] \in Recorded
          /\ determined' = Append(determined,
                 [request |-> r, asOf |-> d, set |-> s, snapshot |-> f, model |-> model,
                  decision |-> Evaluate(model, f, FiguresOf[s][f.size])])
    BY DetermineFacts DEF DeterminationInv
<1> DEFINE new == [request |-> r, asOf |-> d, set |-> s, snapshot |-> f, model |-> model,
                   decision |-> Evaluate(model, f, FiguresOf[s][f.size])]
<1>2. /\ new.snapshot = f /\ new.set = s /\ new.model = model
      /\ new.decision = Evaluate(model, f, FiguresOf[s][f.size])
    OBVIOUS
<1>3. new \in Recorded /\ determined' = Append(determined, new)
    BY <1>1
<1> HIDE DEF new
<1>4. determined \in Seq(Recorded) /\ Len(determined) < MaxDeterminations
    BY DEF Determine, DeterminationInv, DeterminationTypeOK
<1>5. /\ determined' \in Seq(Recorded) /\ Len(determined') = Len(determined) + 1
      /\ DOMAIN determined' = DOMAIN determined \cup {Len(determined) + 1}
      /\ \A i \in DOMAIN determined : determined'[i] = determined[i]
      /\ determined'[Len(determined) + 1] = new
    BY <1>3, <1>4
<1>6. UNCHANGED <<filed, opened, expedited, range, model, reviews, queued, at, picked>>
    BY DEF Determine
<1>7. DeterminationTypeOK'
    <2>1. \A q \in Run : picked[q] \subseteq DOMAIN determined
        BY DEF DeterminationInv, DeterminationTypeOK
    <2>2. picked' \in [Run -> SUBSET (DOMAIN determined')]
        BY <1>5, <1>6, <2>1 DEF DeterminationInv, DeterminationTypeOK
    <2> QED BY <1>4, <1>5, <1>6, <2>2 DEF DeterminationInv, DeterminationTypeOK, RangeInv
<1>8. RecordedInv'
    <2> SUFFICES ASSUME NEW i \in DOMAIN determined'
                 PROVE  /\ determined'[i].snapshot.size \in DOMAIN FiguresOf[determined'[i].set]
                        /\ determined'[i].decision =
                               Evaluate(determined'[i].model, determined'[i].snapshot,
                                        FiguresOf[determined'[i].set][determined'[i].snapshot.size])
        BY DEF RecordedInv, Evaluate, Decision, Money, BenefitAmount, ReasonCode, Fails
    <2>1. CASE i \in DOMAIN determined
        BY <1>5, <2>1 DEF DeterminationInv, RecordedInv
    <2>2. CASE i = Len(determined) + 1
        BY <1>1, <1>2, <1>5, <2>2
    <2> QED BY <1>5, <2>1, <2>2
<1>9. ReviewInv'
    BY <1>5, <1>6 DEF DeterminationInv, ReviewInv
<1>10. MessageInv' /\ FiledInv'
    BY <1>6 DEF DeterminationInv, MessageInv, FiledInv
<1> QED BY <1>7, <1>8, <1>9, <1>10 DEF DeterminationInv

LEMMA SampleInv ==
    ASSUME DeterminationInv, NEW q \in Run, NEW i \in picked[q], Sample(q, i)
    PROVE  DeterminationInv'
<1> DEFINE error == Reproduce(i).amount - determined[i].decision.amount
           new   == [of |-> i, error |-> error, model |-> model]
<1>1. i \in DOMAIN determined /\ DeterminationTypeOK
    BY DEF DeterminationInv, DeterminationTypeOK
<1>2. i \in 1..MaxDeterminations
    <2>1. DOMAIN determined = 1..Len(determined) /\ Len(determined) \in Nat
        BY <1>1 DEF DeterminationTypeOK
    <2> QED BY <1>1, <2>1 DEF DeterminationTypeOK
<1>3. error \in Int
    BY <1>1, ReproduceType DEF DeterminationInv, RecordedInv
<1>4. error = Evaluate(model, determined[i].snapshot,
                       FiguresOf[determined[i].set][determined[i].snapshot.size]).amount
                  - determined[i].decision.amount
    BY DEF Reproduce
<1>5. /\ \A rev \in reviews : rev.of # i
      /\ reviews' = reviews \cup {new}
      /\ queued'  = [queued EXCEPT ![i] = IF error # 0 THEN @ + 1 ELSE @]
      /\ picked'  = [picked EXCEPT ![q] = @ \ {i}]
      /\ UNCHANGED <<filed, opened, expedited, range, model, determined, at>>
    BY DEF Sample, intakeVars
<1>6. new.of = i /\ new.error = error /\ new.model = model
    OBVIOUS
<1>7. new \in [of : 1..MaxDeterminations, error : Int, model : Models]
    BY <1>1, <1>2, <1>3 DEF DeterminationTypeOK
<1> HIDE DEF error, new
<1>8. DeterminationTypeOK'
    <2>1. queued' \in [1..MaxDeterminations -> Nat]
        BY <1>1, <1>2, <1>5 DEF DeterminationTypeOK
    <2>2. picked' \in [Run -> SUBSET (DOMAIN determined')]
        BY <1>1, <1>5 DEF DeterminationTypeOK
    <2>3. reviews' \subseteq [of : 1..MaxDeterminations, error : Int, model : Models]
        BY <1>1, <1>5, <1>7 DEF DeterminationTypeOK
    <2> QED BY <1>1, <1>5, <2>1, <2>2, <2>3 DEF DeterminationTypeOK, RangeInv
<1>9. ReviewInv'
    BY <1>1, <1>4, <1>5, <1>6 DEF DeterminationInv, ReviewInv
<1>10. MessageInv'
    <2> SUFFICES ASSUME NEW j \in 1..MaxDeterminations
                 PROVE  queued'[j] = IF \E rev \in reviews' : rev.of = j /\ rev.error # 0 THEN 1 ELSE 0
        BY DEF MessageInv
    <2>1. queued[j] = IF \E rev \in reviews : rev.of = j /\ rev.error # 0 THEN 1 ELSE 0
        BY DEF DeterminationInv, MessageInv
    <2>2. CASE j = i
        <3>1. queued[i] = 0
            BY <1>5, <2>1, <2>2
        <3>2. queued'[i] = IF error # 0 THEN 1 ELSE 0
            BY <1>1, <1>2, <1>5, <3>1 DEF DeterminationTypeOK
        <3>3. (\E rev \in reviews' : rev.of = i /\ rev.error # 0) <=> error # 0
            BY <1>5, <1>6
        <3> QED BY <2>2, <3>2, <3>3
    <2>3. CASE j # i
        BY <1>1, <1>5, <1>6, <2>1, <2>3 DEF DeterminationTypeOK
    <2> QED BY <2>2, <2>3
<1>11. RecordedInv' /\ FiledInv'
    BY <1>5 DEF DeterminationInv, RecordedInv, FiledInv
<1> QED BY <1>8, <1>9, <1>10, <1>11 DEF DeterminationInv

\* Publishing, deploying and the runs leave what is recorded alone.
LEMMA PublishInv ==
    ASSUME DeterminationInv, NEW d \in Date, Publish(d)
    PROVE  DeterminationInv'
<1> DEFINE n == Len(range)
           closed == [range EXCEPT ![n].to = d - 1]
           span == [from : Date, to : Date \cup {Open}]
<1>1. range \in Seq(span) /\ n \in 1..Len(FiguresOf) /\ n < Len(FiguresOf) /\ Len(FiguresOf) \in Nat
    BY FiguresAssumption DEF Publish, DeterminationInv, DeterminationTypeOK, RangeInv
<1>2. range[n] \in span /\ range[n].from \in Nat /\ range[n].from >= 1 /\ d > range[n].from
    <2>1. d > range[n].from
        BY DEF Publish
    <2>2. range[n] \in span
        <3> HIDE DEF span
        <3> QED BY <1>1
    <2> QED BY <2>1, <2>2 DEF Date
<1>3. d - 1 \in Date /\ Open \in Date \cup {Open} /\ d \in Date
    BY <1>2 DEF Date
<1>4. [range[n] EXCEPT !.to = d - 1] \in span /\ [from |-> d, to |-> Open] \in span
    BY <1>2, <1>3
<1>5. closed \in Seq(span) /\ Len(closed) = n
    <2>1. closed = [range EXCEPT ![n] = [range[n] EXCEPT !.to = d - 1]]
        OBVIOUS
    <2> HIDE DEF span, closed
    <2> QED BY <1>1, <1>4, <2>1
<1>6. range' = Append(closed, [from |-> d, to |-> Open])
    BY DEF Publish
<1> HIDE DEF span, closed
<1>7. range' \in Seq(span) /\ Len(range') = n + 1
    BY <1>4, <1>5, <1>6
<1>8. RangeInv'
    BY <1>1, <1>7 DEF RangeInv, span
<1>9. UNCHANGED <<filed, opened, expedited, model, determined, reviews, queued, at, picked>>
    BY DEF Publish, intakeVars, qcVars
<1>10. DeterminationTypeOK'
    BY <1>8, <1>9 DEF DeterminationInv, DeterminationTypeOK
<1>11. RecordedInv' /\ ReviewInv' /\ MessageInv' /\ FiledInv'
    BY <1>9 DEF DeterminationInv, RecordedInv, ReviewInv, MessageInv, FiledInv
<1> QED BY <1>10, <1>11 DEF DeterminationInv

LEMMA RunInv ==
    ASSUME DeterminationInv, NEW q \in Run,
           \/ \E S \in SUBSET DOMAIN determined : StartRun(q, S)
           \/ \E i \in picked[q] : Abort(q, i)
           \/ EndRun(q)
    PROVE  DeterminationInv'
<1>1. /\ UNCHANGED <<filed, opened, expedited, range, model, determined, reviews, queued>>
      /\ \E S \in SUBSET DOMAIN determined, where \in {"idle", "sampling"} :
           picked' = [picked EXCEPT ![q] = S] /\ at' = [at EXCEPT ![q] = where]
    BY DEF StartRun, Abort, EndRun, intakeVars
<1>2. DeterminationTypeOK'
    BY <1>1 DEF DeterminationInv, DeterminationTypeOK, RangeInv
<1>3. RecordedInv' /\ ReviewInv' /\ MessageInv' /\ FiledInv'
    BY <1>1 DEF DeterminationInv, RecordedInv, ReviewInv, MessageInv, FiledInv
<1> QED BY <1>2, <1>3 DEF DeterminationInv

LEMMA DeterminationStep == DeterminationInv /\ [DeterminationNext]_determinationVars => DeterminationInv'
<1> SUFFICES ASSUME DeterminationInv, [DeterminationNext]_determinationVars PROVE DeterminationInv'
    OBVIOUS
<1>1. ASSUME NEW r \in ProgramRequest, NEW h \in Household, NEW d \in Date, Submit(r, h, d)
      PROVE  DeterminationInv'
    BY <1>1, SubmitInv
<1>2. ASSUME NEW r \in ProgramRequest, NEW d \in Date, Determine(r, d) PROVE DeterminationInv'
    BY <1>2, DetermineInv
<1>3. ASSUME NEW d \in Date, Publish(d) PROVE DeterminationInv'
    BY <1>3, PublishInv
<1>4. CASE Deploy
    <2>1. /\ model' = "later"
          /\ UNCHANGED <<filed, opened, expedited, range, determined, reviews, queued, at, picked>>
        BY <1>4 DEF Deploy, intakeVars, qcVars
    <2>2. DeterminationTypeOK'
        BY <2>1 DEF DeterminationInv, DeterminationTypeOK, RangeInv, Models
    <2>3. RecordedInv' /\ ReviewInv' /\ MessageInv' /\ FiledInv'
        BY <2>1 DEF DeterminationInv, RecordedInv, ReviewInv, MessageInv, FiledInv
    <2> QED BY <2>2, <2>3 DEF DeterminationInv
<1>5. ASSUME NEW q \in Run, NEW i \in picked[q], Sample(q, i) PROVE DeterminationInv'
    BY <1>5, SampleInv
<1>6. ASSUME NEW q \in Run,
             \/ \E S \in SUBSET DOMAIN determined : StartRun(q, S)
             \/ \E i \in picked[q] : Abort(q, i)
             \/ EndRun(q)
      PROVE  DeterminationInv'
    BY <1>6, RunInv
<1>7. CASE UNCHANGED determinationVars
    <2>1. UNCHANGED <<filed, opened, expedited, range, model, determined, reviews, queued, at, picked>>
        BY <1>7 DEF determinationVars, intakeVars, qcVars
    <2>2. DeterminationTypeOK'
        BY <2>1 DEF DeterminationInv, DeterminationTypeOK, RangeInv
    <2>3. RecordedInv' /\ ReviewInv' /\ MessageInv' /\ FiledInv'
        BY <2>1 DEF DeterminationInv, RecordedInv, ReviewInv, MessageInv, FiledInv
    <2> QED BY <2>2, <2>3 DEF DeterminationInv
<1> QED BY <1>1, <1>2, <1>3, <1>4, <1>5, <1>6, <1>7 DEF DeterminationNext

LEMMA AlwaysDetermination == DeterminationSpec => []DeterminationInv
BY DeterminationInitInv, DeterminationStep, PTL DEF DeterminationSpec

-----------------------------------------------------------------------------
(* Determination: theorems                                                 *)

\* Whatever is filed, published, deployed or sampled, every variable keeps
\* its type: a recorded amount is never below zero, a set in use is published.
THEOREM DeterminationTypeCorrect == DeterminationSpec => []DeterminationTypeOK
<1>1. DeterminationInv => DeterminationTypeOK
    BY DEF DeterminationInv
<1> QED BY <1>1, AlwaysDetermination, PTL

LEMMA DecisionFacts ==
    ASSUME NEW f \in Facts, NEW p \in Figures
    PROVE  /\ Decision(f, p).eligible <=> Decision(f, p).amount > 0
           /\ Decision(f, p).eligible <=> Decision(f, p).reason = "ELIGIBLE"
<1>1. BenefitAmount(f, p) \in Nat
    BY BenefitTypes
<1>2. Fails(f, p) => BenefitAmount(f, p) = 0
    BY DEF BenefitAmount
<1>3. ReasonCode(f, p) = "ELIGIBLE" <=> ~ Fails(f, p) /\ BenefitAmount(f, p) > 0
    BY <1>1 DEF ReasonCode, Fails
<1>4. /\ Decision(f, p).eligible <=> ~ Fails(f, p) /\ BenefitAmount(f, p) > 0
      /\ Decision(f, p).amount = BenefitAmount(f, p)
      /\ Decision(f, p).reason = ReasonCode(f, p)
    BY DEF Decision
<1> QED BY <1>1, <1>2, <1>3, <1>4

\* The tables of the decision model agree on who is paid, for every household
\* and every figures the code accepts.
THEOREM DecisionsAreConsistent == DeterminationSpec => []DecisionsConsistent
<1>1. DeterminationInv => DecisionsConsistent
    <2> SUFFICES ASSUME DeterminationInv, NEW r \in ProgramRequest, NEW d \in Date,
                        NEW s \in DOMAIN range, filed[r] # NoHousehold,
                        filed[r].size \in DOMAIN FiguresOf[s]
                 PROVE  LET c == Decision(Assemble(filed[r], d), FiguresOf[s][filed[r].size])
                        IN  /\ c.eligible <=> c.amount > 0
                            /\ c.eligible <=> c.reason = "ELIGIBLE"
        BY DEF DecisionsConsistent
    <2>1. filed[r] \in Household
        BY DEF DeterminationInv, DeterminationTypeOK
    <2>2. s \in DOMAIN FiguresOf
        <3>1. DOMAIN range = 1..Len(range)
            BY DEF DeterminationInv, DeterminationTypeOK, RangeInv
        <3> QED BY <3>1, FiguresAssumption DEF DeterminationInv, DeterminationTypeOK, RangeInv
    <2>3. FiguresOf[s][filed[r].size] \in Figures /\ Assemble(filed[r], d) \in Facts
        BY <2>1, <2>2, FiguresAssumption, AssembleType
    <2> QED BY <2>3, DecisionFacts
<1> QED BY <1>1, AlwaysDetermination, PTL

\* Against every recorded determination, under any figures and any model: a
\* household worse off would be paid no less, but for the minimum benefit.
THEOREM NeedIsNeverPaidLess == DeterminationSpec => []NeedNeverPaysLess
<1>1. DeterminationInv => NeedNeverPaysLess
    <2> SUFFICES ASSUME DeterminationInv, NEW i \in DOMAIN determined, NEW h \in Household,
                        h.size = determined[i].snapshot.size,
                        AtLeastAsWellOff(determined[i].snapshot, Assemble(h, determined[i].asOf))
                 PROVE  LET rich == determined[i].snapshot
                            poor == Assemble(h, determined[i].asOf)
                            p    == FiguresOf[determined[i].set][rich.size]
                        IN  \/ determined[i].decision.amount <= Evaluate(determined[i].model, poor, p).amount
                            \/ ComputedBenefit(rich, p) = 0
        BY DEF NeedNeverPaysLess
    <2>1. determined[i] \in Recorded
        BY DEF DeterminationInv, DeterminationTypeOK
    <2>2. /\ determined[i].snapshot \in Facts /\ determined[i].asOf \in Date
          /\ determined[i].set \in DOMAIN FiguresOf
        BY <2>1 DEF Recorded
    <2>3. Assemble(h, determined[i].asOf) \in Facts
        BY <2>2, AssembleType
    <2>4. /\ FiguresOf[determined[i].set][determined[i].snapshot.size] \in Figures
          /\ determined[i].decision =
                 Evaluate(determined[i].model, determined[i].snapshot,
                          FiguresOf[determined[i].set][determined[i].snapshot.size])
        BY <2>2, FiguresAssumption DEF DeterminationInv, RecordedInv
    <2> QED BY <2>2, <2>3, <2>4, NeedMonotone
<1> QED BY <1>1, AlwaysDetermination, PTL

\* Where every record is in force, intake's expedited test is the one the
\* assembled facts would give.
THEOREM ExpeditedIsAsFacts == DeterminationSpec => []ExpeditedAsFacts
<1>1. DeterminationInv => ExpeditedAsFacts
    <2> SUFFICES ASSUME DeterminationInv, NEW r \in ProgramRequest, filed[r] # NoHousehold,
                        \A i \in DOMAIN filed[r].incomes : InForce(filed[r].incomes[i], opened[r]),
                        \A i \in DOMAIN filed[r].expenses : InForce(filed[r].expenses[i], opened[r])
                 PROVE  LET f == Assemble(filed[r], opened[r])
                        IN  expedited[r] = IsExpedited(GrossIncome(f), filed[r].liquid, f.shelter + f.utility)
        BY DEF ExpeditedAsFacts
    <2>1. filed[r] \in Household /\ opened[r] \in Date /\ expedited[r] = ExpeditedAsFiled(filed[r])
        BY DEF DeterminationInv, DeterminationTypeOK, FiledInv
    <2> QED BY <2>1, FiledAsAssembled
<1> QED BY <1>1, AlwaysDetermination, PTL

\* A re-derivation differs from what was recorded only under another model.
THEOREM ErrorIsFromNewModel == DeterminationSpec => []ErrorOnlyFromNewModel
<1>1. DeterminationInv => ErrorOnlyFromNewModel
    <2> SUFFICES ASSUME DeterminationInv, NEW rev \in reviews, rev.model = determined[rev.of].model
                 PROVE  rev.error = 0
        BY DEF ErrorOnlyFromNewModel
    <2> DEFINE d == determined[rev.of]
    <2>1. rev.of \in DOMAIN determined /\ d \in Recorded
        BY DEF DeterminationInv, DeterminationTypeOK, ReviewInv
    <2>2. d.decision.amount \in Nat
        BY <2>1 DEF Recorded, Verdict
    <2>3. rev.error = d.decision.amount - d.decision.amount
        BY <2>1 DEF DeterminationInv, ReviewInv, RecordedInv
    <2> QED BY <2>2, <2>3
<1> QED BY <1>1, AlwaysDetermination, PTL

\* Through overlapping, aborted and lost runs, a determination has one message
\* if it has a review with an error and none otherwise.
THEOREM SummaryIsIffError == DeterminationSpec => []SummaryIffError
<1>1. DeterminationInv => SummaryIffError
    <2> SUFFICES ASSUME DeterminationInv, NEW i \in DOMAIN determined
                 PROVE  i \in 1..MaxDeterminations
        BY DEF DeterminationInv, MessageInv, SummaryIffError
    <2>1. DOMAIN determined = 1..Len(determined) /\ Len(determined) \in Nat
        BY DEF DeterminationInv, DeterminationTypeOK
    <2> QED BY <2>1 DEF DeterminationInv, DeterminationTypeOK
<1> QED BY <1>1, AlwaysDetermination, PTL

=============================================================================
