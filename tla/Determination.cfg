SPECIFICATION DeterminationSpec
CONSTANTS
    Cent = 4
    RateUnit = 10
    ProgramRequest = {r1}
    Household <- MCHousehold
    NoHousehold = NoHousehold
    FiguresOf <- MCFiguresOf
    Run = {q1, q2}
    LastDate = 3
    MaxDeterminations = 2
INVARIANTS
    DecisionsConsistent
    NeedNeverPaysLess
    ExpeditedAsFacts
    ErrorOnlyFromNewModel
    SummaryIffError
SYMMETRY Runs
CHECK_DEADLOCK FALSE
