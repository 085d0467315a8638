SPECIFICATION FairSpec
CONSTANTS
    p1 = p1
    p2 = p2
    stop = stop
    other = other
    Messages = {stop, m1, other}
    Phones = {p1, p2}
    PhoneOf <- Senders
    Commands = {stop}
    MaxCalls = 5
INVARIANTS
    MemoryInv
    AnsweredInOrder
    StopBlocksLaterMessages
    LostOnlyByFailure
CHECK_DEADLOCK FALSE
PROPERTY QueueDrains
