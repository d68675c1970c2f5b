SPECIFICATION Spec
CONSTANTS
    d1 = d1
    x1 = x1
    x2 = x2
    w1 = w1
    w2 = w2
    v1 = v1
    v2 = v2
    Doc = {d1}
    Verification = {x1, x2}
    Elsewhere = {x2}
    Worker = {w1, w2}
    Reviewer = {v1, v2}
    MaxAttempts = 2
    MaxCrashes = 1
    MaxRequests = 1
    NoDoc = NoDoc
INVARIANTS
    PostedAsConfirmed
    ConfirmedTwiceOnlyIfStale
PROPERTIES
    RegressesOnlyByRedelivery
    EveryUploadSettles
CHECK_DEADLOCK FALSE
