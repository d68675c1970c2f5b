SPECIFICATION Spec
CONSTANTS
    MaxChunk = 3
    MaxLength = 4
    Label <- MCLabel
    InPartial <- MCInPartial
    Within <- MCWithin
    MaxSearches = 6
    Whole <- MCWhole
    Hundredths <- MCHundredths
    FallsShort <- MCFallsShort
    Name = {"x", "y"}
    MaxAttempts = 2
    MaxTries = 2
    Parameter = {"p1", "p2"}
    Value <- MCValue
    Field = {"column"}
    Measure = {"measure"}
    Metric = {"metric"}
    Dimension = {"d1", "d2"}
    Element = {"e1", "e2"}
    Cases = 3
    MaxCases = 2
    StaleAfter = 2
    MaxFiled = 2
    MaxRuns = 2
    Marts <- MCMarts
    Guarded = {"fairness_audit"}
    Items <- MCItems
INVARIANTS
    ChunksPartition
    AnswerAttributed
    
    ReplyApplies
    NamesKeepTheirToken
    ServedAsBuilt
    ReportedOncePerBuild
PROPERTY
    TopCasesReached
CHECK_DEADLOCK FALSE
