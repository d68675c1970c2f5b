SPECIFICATION FairSpec
CONSTANTS
    w1 = w1
    w2 = w2
    w3 = w3
    Writer = {w1, w2, w3}
    MaxEvents = 4
    NoWriter = NoWriter
INVARIANTS
    BrokenOnlyByOvertaking
PROPERTIES
    EveryAppendProceeds
CHECK_DEADLOCK FALSE
