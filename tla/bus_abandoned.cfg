SPECIFICATION FairSpec
CONSTANTS
    Messages = {m1}
    Workers = {w1, w2}
    MaxRetries = 0
    BatchSize = 1
    ClaimCount = 1
    ScanLimit = 4
    MaxLen = 4
    DlqMaxLen = 4
    MaxCrashes = 1
    MaxExpiries = 0
PROPERTY AbandonedIsReclaimed
