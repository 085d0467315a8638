SPECIFICATION FairSpec
CONSTANTS
    Messages = {m1, m2}
    Workers = {w1, w2}
    MaxRetries = 0
    BatchSize = 2
    ClaimCount = 1
    ScanLimit = 4
    MaxLen = 2
    DlqMaxLen = 2
    MaxCrashes = 1
    MaxExpiries = 0
PROPERTY RecoveryReclaims
