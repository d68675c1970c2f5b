--------------------------- MODULE Determination ---------------------------
(***************************************************************************)
(* From a submitted application to a recorded, re-derivable determination: *)
(* IntakeService.submit, FactAssembler, JdbcPolicyParameterResolver,       *)
(* JdbcDeterminationService, and QcSamplingService, which re-derives       *)
(* determinations in runs that may overlap.  SnapRules is the model they   *)
(* evaluate.                                                               *)
(*                                                                         *)
(* A household is what its intake request declares: every member joins on  *)
(* the day of intake and no code ends a membership, so the records of the  *)
(* members are kept together.  Dates are numbered; an effective_to of null *)
(* is Open.  Parameter sets are numbered in the order of publication.      *)
(***************************************************************************)
EXTENDS SnapRules, Sequences

CONSTANTS
    ProgramRequest,     \* program requests
    Household,          \* what an intake request may declare
    NoHousehold,        \* a request not yet submitted
    FiguresOf,          \* by parameter set, then by household size
    Run,                \* runs of runSample
    LastDate,           \* bound on the calendar
    MaxDeterminations   \* bound on the determinations recorded

Date == 1..LastDate
Open == LastDate + 1

ASSUME CalendarAssumption == LastDate \in Nat /\ LastDate >= 2 /\ MaxDeterminations \in Nat

\* V2's checks: no amount is negative, an expense has one of the types.
IncomeRecord == [from : Date, to : Date \cup {Open}, amount : Nat, earned : BOOLEAN, ssi : BOOLEAN]

ExpenseType == {"RENT_OR_MORTGAGE", "PROPERTY_TAX", "HOME_INSURANCE", "UTILITIES",
                "DEPENDENT_CARE", "MEDICAL", "CHILD_SUPPORT_PAID"}

ExpenseRecord == [from : Date, to : Date \cup {Open}, amount : Nat, type : ExpenseType]

ASSUME HouseholdAssumption ==
    /\ NoHousehold \notin Household
    /\ Household \subseteq [size : Nat, incomes : Seq(IncomeRecord), expenses : Seq(ExpenseRecord),
                            elderlyFrom : Date \cup {Open}, liquid : Nat]

\* Two sets are seeded; validate refuses a negative figure and a rate above one.
ASSUME FiguresAssumption ==
    /\ DOMAIN FiguresOf = 1..Len(FiguresOf) /\ Len(FiguresOf) \in Nat /\ Len(FiguresOf) >= 2
    /\ \A s \in DOMAIN FiguresOf : \A n \in DOMAIN FiguresOf[s] : FiguresOf[s][n] \in Figures

VARIABLES
    filed,      \* the household of a request
    opened,     \* the day it was submitted
    expedited,  \* program_request.is_expedited
    range,      \* effective_from and effective_to of the published sets
    model,      \* the decision model the API runs, by its hash
    determined, \* eligibility_determination with its trace, in order
    reviews,    \* payment_error_review rows, as of sampling
    queued,     \* qc_summary messages sent per determination
    at,         \* where a run stands
    picked      \* the determinations it has yet to sample

intakeVars == <<filed, opened, expedited>>
qcVars     == <<reviews, queued, at, picked>>
determinationVars == <<intakeVars, range, model, determined, qcVars>>

DeterminationInit ==
    /\ filed     = [r \in ProgramRequest |-> NoHousehold]
    /\ opened    = [r \in ProgramRequest |-> Open]
    /\ expedited = [r \in ProgramRequest |-> FALSE]
    /\ range = <<[from |-> 1, to |-> 1], [from |-> 2, to |-> Open]>>
    /\ model = "shipped"
    /\ determined = <<>>
    /\ reviews = {}
    /\ queued  = [i \in 1..MaxDeterminations |-> 0]
    /\ at      = [q \in Run |-> "idle"]
    /\ picked  = [q \in Run |-> {}]

InForce(x, d) == x.from <= d /\ d <= x.to

\* The sum of the amounts of the records s[i] with i in I.
Total(s, I) ==
    LET sum[n \in 0..Len(s)] ==
            IF n = 0 THEN 0 ELSE sum[n - 1] + (IF n \in I THEN s[n].amount ELSE 0)
    IN  sum[Len(s)]

-----------------------------------------------------------------------------
(* Intake                                                                  *)

\* Seeded bug: utilities are not counted as shelter.
RentAlone == {"RENT_OR_MORTGAGE", "PROPERTY_TAX", "HOME_INSURANCE"}

ShelterExpenseTypes == {"RENT_OR_MORTGAGE", "PROPERTY_TAX", "HOME_INSURANCE", "UTILITIES"}

\* isExpedited sums the request, whatever the dates on its records.
ExpeditedAsFiled(h) ==
    IsExpedited(Total(h.incomes, DOMAIN h.incomes), h.liquid,
                Total(h.expenses, {i \in DOMAIN h.expenses :
                                       h.expenses[i].type \in ShelterExpenseTypes}))

\* submit: household, records and request in one transaction.
Submit(r, h, d) ==
    /\ filed[r] = NoHousehold
    /\ filed'     = [filed EXCEPT ![r] = h]
    /\ opened'    = [opened EXCEPT ![r] = d]
    /\ expedited' = [expedited EXCEPT ![r] = ExpeditedAsFiled(h)]
    /\ UNCHANGED <<range, model, determined, qcVars>>

-----------------------------------------------------------------------------
(* Determination                                                           *)

\* FactAssembler.assemble of a household's records as of day d.
Assemble(h, d) ==
    LET incomes(e) == {i \in DOMAIN h.incomes : InForce(h.incomes[i], d) /\ h.incomes[i].earned = e}
        expense(T) == {i \in DOMAIN h.expenses : InForce(h.expenses[i], d) /\ h.expenses[i].type \in T}
    IN  [size        |-> h.size,
         earned      |-> Total(h.incomes, incomes(TRUE)),
         unearned    |-> Total(h.incomes, incomes(FALSE)),
         care        |-> Total(h.expenses, expense({"DEPENDENT_CARE"})),
         medical     |-> Total(h.expenses, expense({"MEDICAL"})),
         shelter     |-> Total(h.expenses, expense({"RENT_OR_MORTGAGE", "PROPERTY_TAX", "HOME_INSURANCE"})),
         utility     |-> Total(h.expenses, expense({"UTILITIES"})),
         elderly     |-> h.elderlyFrom <= d,
         categorical |-> \E i \in DOMAIN h.incomes : InForce(h.incomes[i], d) /\ h.incomes[i].ssi]

\* The decision of model m, its amount to the cent.  What a later release of
\* the model decides is open; here it pays a dollar more.
Evaluate(m, f, p) ==
    LET d == Decision(f, p) IN
    IF m = "shipped" THEN [d EXCEPT !.amount = Money(@)]
    ELSE [d EXCEPT !.amount = IF d.eligible THEN Money(@) + Dollar ELSE 0]

\* determine: no member as of asOf, a size the set does not cover or a benefit
\* that rounds to nothing (V5's check) leaves no determination behind.
Determine(r, asOf) ==
    /\ Len(determined) < MaxDeterminations
    /\ filed[r] # NoHousehold
    /\ opened[r] <= asOf
    /\ \E s \in DOMAIN range :
         LET f == Assemble(filed[r], asOf)
             d == Evaluate(model, f, FiguresOf[s][f.size])
         IN  /\ InForce(range[s], asOf)
             /\ f.size \in DOMAIN FiguresOf[s]
             /\ d.eligible <=> d.amount > 0
             /\ determined' = Append(determined,
                    [request |-> r, asOf |-> asOf, set |-> s, snapshot |-> f,
                     model |-> model, decision |-> d])
    /\ UNCHANGED <<intakeVars, range, model, qcVars>>

\* A set is published behind the last one, its first day in the past or not.
\* PolicyPublish has the reviews that lead to it.
Publish(d) ==
    LET n == Len(range) IN
    /\ n < Len(FiguresOf)
    /\ d > range[n].from
    /\ range' = Append([range EXCEPT ![n].to = d - 1], [from |-> d, to |-> Open])
    /\ UNCHANGED <<intakeVars, model, determined, qcVars>>

\* The API is deployed with another decision model.
Deploy ==
    /\ model = "shipped"
    /\ model' = "later"
    /\ UNCHANGED <<intakeVars, range, determined, qcVars>>

-----------------------------------------------------------------------------
(* Quality control                                                         *)

\* Seeded bug: the figures are resolved by date instead of by set.
ReproduceAsOf(i) ==
    LET d == determined[i]
        s == CHOOSE n \in DOMAIN range : InForce(range[n], d.asOf)
    IN  Evaluate(model, d.snapshot, FiguresOf[s][d.snapshot.size])

\* reproduce: the snapshot and the recorded set, the model of today.
Reproduce(i) ==
    LET d == determined[i]
    IN  Evaluate(model, d.snapshot, FiguresOf[d.set][d.snapshot.size])

\* sampleSelectionSql, within the lookback window.
Population ==
    {i \in DOMAIN determined :
        determined[i].decision.eligible /\ \A rev \in reviews : rev.of # i}

\* runSample draws its ids, outside any transaction.
StartRun(q, S) ==
    /\ at[q] = "idle"
    /\ S # {}
    /\ S \subseteq Population
    /\ at'     = [at EXCEPT ![q] = "sampling"]
    /\ picked' = [picked EXCEPT ![q] = S]
    /\ UNCHANGED <<intakeVars, range, model, determined, reviews, queued>>

\* Seeded bug: without the proxy row and message are two transactions, and
\* the run can be lost between them.
SampleUnproxied(q, i) ==
    LET error == Reproduce(i).amount - determined[i].decision.amount IN
    /\ at[q] = "sampling"
    /\ i \in picked[q]
    /\ \A rev \in reviews : rev.of # i
    /\ reviews' = reviews \cup {[of |-> i, error |-> error, model |-> model]}
    /\ \/ /\ queued' = [queued EXCEPT ![i] = IF error # 0 THEN @ + 1 ELSE @]
          /\ picked' = [picked EXCEPT ![q] = @ \ {i}]
          /\ UNCHANGED at
       \/ /\ at' = [at EXCEPT ![q] = "idle"]
          /\ picked' = [picked EXCEPT ![q] = {}]
          /\ UNCHANGED queued
    /\ UNCHANGED <<intakeVars, range, model, determined>>

\* sampleOne, one transaction of its own: the row, and its message if the
\* amounts differ.
Sample(q, i) ==
    LET error == Reproduce(i).amount - determined[i].decision.amount IN
    /\ at[q] = "sampling"
    /\ i \in picked[q]
    /\ \A rev \in reviews : rev.of # i
    /\ reviews' = reviews \cup {[of |-> i, error |-> error, model |-> model]}
    /\ queued'  = [queued EXCEPT ![i] = IF error # 0 THEN @ + 1 ELSE @]
    /\ picked'  = [picked EXCEPT ![q] = @ \ {i}]
    /\ UNCHANGED <<intakeVars, range, model, determined, at>>

\* V26's unique (determination_id) refuses a second review, and the exception
\* ends the run.
Abort(q, i) ==
    /\ at[q] = "sampling"
    /\ i \in picked[q]
    /\ \E rev \in reviews : rev.of = i
    /\ at'     = [at EXCEPT ![q] = "idle"]
    /\ picked' = [picked EXCEPT ![q] = {}]
    /\ UNCHANGED <<intakeVars, range, model, determined, reviews, queued>>

\* The run has sampled all it drew, or it is lost with the API.
EndRun(q) ==
    /\ at[q] = "sampling"
    /\ at'     = [at EXCEPT ![q] = "idle"]
    /\ picked' = [picked EXCEPT ![q] = {}]
    /\ UNCHANGED <<intakeVars, range, model, determined, reviews, queued>>

-----------------------------------------------------------------------------
DeterminationNext ==
    \/ \E r \in ProgramRequest, h \in Household, d \in Date : Submit(r, h, d)
    \/ \E r \in ProgramRequest, d \in Date : Determine(r, d)
    \/ \E d \in Date : Publish(d)
    \/ Deploy
    \/ \E q \in Run :
        \/ \E S \in SUBSET DOMAIN determined : StartRun(q, S)
        \/ \E i \in picked[q] : Sample(q, i) \/ Abort(q, i)
        \/ EndRun(q)

DeterminationSpec == DeterminationInit /\ [][DeterminationNext]_determinationVars

-----------------------------------------------------------------------------
(* Correctness                                                             *)

\* The nested tables never disagree on who is paid: for every household that
\* can be decided, eligible, a positive amount and the reason ELIGIBLE come
\* together, so that V5's check refuses nothing but a benefit rounded away.
DecisionsConsistent ==
    \A r \in ProgramRequest, d \in Date, s \in DOMAIN range :
        filed[r] # NoHousehold /\ InForce(range[s], d) /\ filed[r].size \in DOMAIN FiguresOf[s] =>
            LET c == Decision(Assemble(filed[r], d), FiguresOf[s][filed[r].size])
            IN  /\ c.eligible <=> c.amount > 0
                /\ c.eligible <=> c.reason = "ELIGIBLE"

\* A household worse off than the one decided would be paid no less under the
\* same figures, but for the minimum benefit: it replaces an amount of zero
\* and not the amounts below it.
NeedNeverPaysLess ==
    \A i \in DOMAIN determined : \A h \in {x \in Household : x.size = determined[i].snapshot.size} :
        LET rich == determined[i].snapshot
            poor == Assemble(h, determined[i].asOf)
            p    == FiguresOf[determined[i].set][rich.size]
        IN  AtLeastAsWellOff(rich, poor) =>
                \/ determined[i].decision.amount <= Evaluate(determined[i].model, poor, p).amount
                \/ ComputedBenefit(rich, p) = 0

\* Intake's test of the request and the facts a determination would assemble
\* that day agree where every record is in force on it.
ExpeditedAsFacts ==
    \A r \in ProgramRequest : filed[r] # NoHousehold =>
        LET h == filed[r]
            f == Assemble(h, opened[r])
        IN  /\ \A i \in DOMAIN h.incomes : InForce(h.incomes[i], opened[r])
            /\ \A i \in DOMAIN h.expenses : InForce(h.expenses[i], opened[r])
            => expedited[r] = IsExpedited(GrossIncome(f), h.liquid, f.shelter + f.utility)

\* A re-derivation differs only where the model is another one, whatever was
\* published meanwhile and for whichever dates (V26's error_amount).
ErrorOnlyFromNewModel ==
    \A rev \in reviews : rev.error # 0 => rev.model # determined[rev.of].model

\* Through overlapping, aborted and lost runs a determination has a qc_summary
\* message exactly when it has a review with an error, and then one.
SummaryIffError ==
    \A i \in DOMAIN determined :
        queued[i] = IF \E rev \in reviews : rev.of = i /\ rev.error # 0 THEN 1 ELSE 0
=============================================================================
