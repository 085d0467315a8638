SPECIFICATION FairSpec
CONSTANTS
    m1 = m1
    m2 = m2
    r1 = r1
    r2 = r2
    Messages = {m1, m2}
    Requests = {r1, r2}
    Payloads <- SplitOrRepeated
    Consumers = {c1, c2}
    BatchSize = 2
    MaxRetries = 1
PROPERTIES
    ImplementsEventDelivery
    QueuedIsSettled
INVARIANTS
    QueueInv
    AcceptedIsQueued
CHECK_DEADLOCK FALSE
