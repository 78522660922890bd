CONSTANTS
    w1 = w1
    w2 = w2
    u1 = u1
    u2 = u2
    l1 = l1
    l2 = l2
    o1 = o1
    o2 = o2
    Workers = {w1, w2}
    Users = {u1}
    Watchlists = {l1, l2}
    Triggers = {o1}
    Limit = 1
    MaxRuns = 2
    MaxFaults = 0
    Jobs <- JobsGenerate
    Owner <- OwnerAll
SPECIFICATION FairSpec
INVARIANTS OneRowPerKey NoOrphans
PROPERTIES TransactionsEnd
CHECK_DEADLOCK FALSE
