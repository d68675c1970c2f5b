SPECIFICATION Spec
CONSTANTS
    w1 = w1
    w2 = w2
    w3 = w3
    Writer = {w1, w2}
    MaxEvents = 3
    NoWriter = NoWriter
INVARIANTS
    ChainVerifies
CHECK_DEADLOCK FALSE
