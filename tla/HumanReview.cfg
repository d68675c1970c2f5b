SPECIFICATION Spec
CONSTANTS
    v1 = v1
    v2 = v2
    n1 = n1
    f1 = f1
    d1 = d1
    Reviewer = {v1, v2}
    Notice = {n1}
    Flag = {f1}
    Discrepancy = {d1}
    MaxSummaries = 2
    MaxIds = 4
    NoRow = NoRow
    NoOne = NoOne
SYMMETRY Symmetry
INVARIANTS
    RowIsLastChained
    SentAsAudited
    DecidedTwiceOnlyIfRaced
    SummaryLostOnlyByDecision
CHECK_DEADLOCK FALSE
