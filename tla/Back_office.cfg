SPECIFICATION SceneSpec
CONSTANTS
    Nobody = Nobody
    Products = {pa, pb}
    Rows = {r1, r2}
    TableOf <- MCTables
    Mergers = {m1, m2}
    Writers = {w1}
    pa = pa  pb = pb  r1 = r1  r2 = r2  m1 = m1  m2 = m2  w1 = w1
    Currencies = {CZK, PLN, "EUR"}
    Wanted <- MCWanted
    Days = {1, 2}
    Fetches <- MCAnswers
    Manual = 3
    Scale = 24
    Jobs = {j1, j2}
    Syncs = {s1}
    MaxJobs = 2
    None = None
    CZK = CZK  PLN = PLN  j1 = j1  j2 = j2  s1 = s1
INVARIANTS
    RowsFollowMerges
    RatesConsistent
PROPERTY
    TransactionsAnswered
CHECK_DEADLOCK FALSE
