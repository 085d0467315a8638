SPECIFICATION ScopedFairSpec
CONSTANTS
    p1 = p1
    m1 = m1
    m2 = m2
    Messages = {m1, m2}
    Workers = {w1, w2}
    Phones = {p1}
    PhoneOf <- OneSender
    Commands = {}
    MaxRuns = 12
    MaxRetries = 1
    BatchSize = 1
    ClaimCount = 1
    ScanLimit = 4
    MaxLen = 8
    DlqMaxLen = 8
    MaxCrashes = 1
    MaxExpiries = 0
PROPERTY PublishedIsHonoured
CHECK_DEADLOCK FALSE
