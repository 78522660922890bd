CONSTANTS
    w1 = w1
    w2 = w2
    u1 = u1
    u2 = u2
    l1 = l1
    l2 = l2
    o1 = o1
    o2 = o2
    Workers = {w1, w2}
    Users = {u1}
    Watchlists = {l1}
    Triggers = {o1}
    Limit = 1
    MaxRuns = 1
    MaxFaults = 1
    Jobs <- JobsTwo
    Owner <- OwnerAll
SPECIFICATION Spec
PROPERTIES OptOutHonoured
CHECK_DEADLOCK FALSE
