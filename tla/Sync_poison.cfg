CONSTANTS
    w1 = w1
    w2 = w2
    c1 = c1
    c2 = c2
    c3 = c3
    s1 = s1
    s2 = s2
    a = a
    b = b
    n1 = n1
    p1 = p1
    p2 = p2
    Names = {n1}
    Idents = {p1, p2}
    Workers = {w1}
    Tickers = {w1}
    Operators = {w1}
    Configs = {c1, c2}
    StoreOf <- TwoStores
    Unknown = {}
    Items = {a, b}
    Feed <- FeedApart
    NamesOf <- NoNames
    IdentOf <- IdentEach
    Catalogued = {}
    Outcomes <- FirstBad
    Copies = 1
    MaxFaults = 0
SPECIFICATION FairSpec
PROPERTIES EventuallySynced
CHECK_DEADLOCK FALSE
