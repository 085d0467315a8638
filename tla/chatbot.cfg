SPECIFICATION ServeSpec
CONSTANTS
    p1 = p1
    m1 = m1
    m2 = m2
    Messages = {m1, m2}
    Workers = {w1, w2}
    Phones = {p1}
    PhoneOf <- OneSender
    Commands = {}
    MaxRuns = 12
    MaxRetries = 1
    BatchSize = 1
    ClaimCount = 1
    ScanLimit = 4
    MaxLen = 2
    DlqMaxLen = 1
    MaxCrashes = 1
    MaxExpiries = 0
SYMMETRY Symmetry
CONSTRAINT InScope
INVARIANTS
    NoMessageIsDropped
    AttemptsAreExecutions
    RacesNeverKill
CHECK_DEADLOCK FALSE
