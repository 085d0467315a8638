SPECIFICATION Spec
CONSTANTS
    Messages = {m1}
    Workers = {w1}
    MaxRetries = 0
    BatchSize = 1
    ClaimCount = 1
    ScanLimit = 4
    MaxLen = 20
    DlqMaxLen = 20
    MaxCrashes = 0
    MaxExpiries = 0
INVARIANT AcceptedIsPublished
