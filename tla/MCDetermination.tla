-------------------------- MODULE MCDetermination --------------------------
EXTENDS Determination, TLC

\* V4's figures for households of one and three, in units of money.
Fy(gross, net, standard, cap, allotment, minimum) ==
    [grossLimit |-> gross * Dollar, netLimit |-> net * Dollar, standard |-> standard * Dollar,
     earnedRate |-> 2, medicalThreshold |-> 35 * Dollar, shelterCap |-> cap * Dollar,
     shelterShare |-> 5, maxAllotment |-> allotment, minimum |-> minimum * Dollar,
     minimumMaxSize |-> 2, reductionRate |-> 3]

MCFiguresOf ==
    << [s \in {1, 3} |-> IF s = 1 THEN Fy(1632, 1255, 204, 712, 292 * Dollar, 23)
                                  ELSE Fy(2798, 2152, 204, 712, 768 * Dollar, 23)],
       [s \in {1, 3} |-> IF s = 1 THEN Fy(1696, 1305, 209, 744, 298 * Dollar, 24)
                                  ELSE Fy(2888, 2221, 209, 744, 785 * Dollar, 24)],
       \* A proposal with a cut for one person and no figures for three; the
       \* full allotment of one is a fraction of a cent.
       [s \in {1} |-> Fy(1696, 1305, 209, 744, 1, 24)] >>

Always == [from |-> 1, to |-> Open]
FirstDay == [from |-> 1, to |-> 1]

Income(when, amount, earned, ssi) ==
    [from |-> when.from, to |-> when.to, amount |-> amount * Dollar, earned |-> earned, ssi |-> ssi]

Expense(type, amount) == [from |-> 1, to |-> Open, amount |-> amount * Dollar, type |-> type]

Case(size, incomes, expenses, elderlyFrom, liquid) ==
    [size |-> size, incomes |-> incomes, expenses |-> expenses,
     elderlyFrom |-> elderlyFrom, liquid |-> liquid * Dollar]

\* The households of SnapDmnEvaluatorTest and their neighbours.
MCHousehold ==
    LET rent == Expense("RENT_OR_MORTGAGE", 800)
        highRent == Expense("RENT_OR_MORTGAGE", 1400)
        utilities == Expense("UTILITIES", 300)
        care == Expense("DEPENDENT_CARE", 200)
        wage(n) == Income(Always, n, TRUE, FALSE)
        pension(n) == Income(Always, n, FALSE, FALSE)
    IN  { Case(1, <<>>, <<>>, Open, 0),
          Case(1, <<pension(1170)>>, <<>>, Open, 0),
          Case(1, <<pension(1400)>>, <<>>, Open, 200),
          Case(1, <<pension(2000)>>, <<Expense("MEDICAL", 135)>>, 2, 0),
          Case(1, <<Income(FirstDay, 1400, TRUE, FALSE), pension(100)>>, <<utilities>>, Open, 50),
          Case(3, <<wage(2500), pension(300)>>, <<care>>, Open, 0),
          Case(3, <<wage(1500)>>, <<rent, utilities, care>>, Open, 0),
          Case(3, <<wage(1000), wage(500)>>, <<highRent, utilities, care>>, 2, 0),
          Case(3, <<Income(Always, 3000, FALSE, TRUE)>>, <<>>, Open, 0) }

Runs == Permutations(Run)
=============================================================================
