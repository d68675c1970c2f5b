SPECIFICATION Spec
CONSTANTS
    r1 = r1
    r2 = r2
    r3 = r3
    Request = {r1, r2, r3}
    Session = {s1}
    NoOne = NoOne
    Limit = 1
    Cap = 2
    MaxCost = 2
    MonthDays = 1
    LastDay = 1
    MaxRestarts = 1
INVARIANTS
    CapHeld
    SpendAccounted
    LimitHeld
SYMMETRY Threads
CHECK_DEADLOCK FALSE
