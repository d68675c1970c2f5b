SPECIFICATION Spec
CONSTANTS
    a1 = a1
    a2 = a2
    p1 = p1
    p2 = p2
    s3 = s3
    s4 = s4
    FY2025 = FY2025
    FY2026 = FY2026
    Admin = {a1, a2}
    Proposal = {p1, p2}
    SetId = {FY2025, FY2026, s3, s4}
    LastDate = 4
    MaxDeterminations = 1
    NoProposal = NoProposal
    NoSet = NoSet
SYMMETRY Symmetry
INVARIANTS
    NoGap
    OverlapOnlyFromSharedBase
    Reproducible
CHECK_DEADLOCK FALSE
