SPECIFICATION LockFairSpec
CONSTANTS
    t1 = t1
    t2 = t2
    t3 = t3
    x1 = x1
    x2 = x2
    Tx = {t1, t2, t3}
    Audit = Audit
    Document = Document
    Discrepancy = Discrepancy
    Proposal = Proposal
    ParameterSet = ParameterSet
    Verification = {x1, x2}
    NoTx = NoTx
INVARIANTS
    DeadlockNeedsRowFirst
PROPERTIES
    EveryTransactionEnds
