SPECIFICATION Spec
CONSTANTS
    p1 = p1
    p2 = p2
    stop = stop
    Messages = {stop, m1}
    Workers = {w1}
    Phones = {p1, p2}
    PhoneOf <- TwoSenders
    Commands = {stop}
    MaxRuns = 2
INVARIANT AnsweredOnce
CHECK_DEADLOCK FALSE
