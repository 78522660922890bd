CONSTANTS
    w1 = w1
    w2 = w2
    c1 = c1
    c2 = c2
    c3 = c3
    s1 = s1
    s2 = s2
    a = a
    b = b
    n1 = n1
    p1 = p1
    p2 = p2
    Names = {n1}
    Idents = {p1, p2}
    Workers = {w1, w2}
    Tickers = {w1, w2}
    Operators = {w2}
    Configs = {c1}
    StoreOf <- OneStore
    Unknown = {}
    Items = {a, b}
    Feed <- FeedPair
    NamesOf <- NamesAll
    IdentOf <- IdentSame
    Catalogued = {}
    Outcomes <- AllGood
    Copies = 1
    MaxFaults = 1
SPECIFICATION SceneSpec
PROPERTY LosersEventuallySynced
CHECK_DEADLOCK FALSE
