SPECIFICATION FairSpec
CONSTANTS
    p1 = p1
    p2 = p2
    stop = stop
    Messages = {stop, m1, m2}
    Workers = {w1, w2}
    Phones = {p1}
    PhoneOf <- OneSender
    Commands = {stop}
    MaxRuns = 2
INVARIANTS
    ProcessingInv
    OneOpenConversation
    InboundOnce
    RepliesAreRecorded
    OptOutIsFinal
PROPERTY ExecutionsEnd
CHECK_DEADLOCK FALSE
