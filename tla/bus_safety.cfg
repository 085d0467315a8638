SPECIFICATION Spec
CONSTANTS
    Messages = {m1, m2}
    Workers = {w1, w2}
    MaxRetries = 1
    BatchSize = 2
    ClaimCount = 1
    ScanLimit = 4
    MaxLen = 2
    DlqMaxLen = 1
    MaxCrashes = 1
    MaxExpiries = 1
SYMMETRY Symmetry
CONSTRAINT InScope
PROPERTY ImplementsEventDelivery
INVARIANTS
    SafetyInv
    UnackedIsReachable
    DlqAfterAllAttempts
    SharedOnlyByClaim
    CompletedAgainOnlyByClaim
