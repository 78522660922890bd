SPECIFICATION SceneSpec
CONSTANTS
    w1 = w1  w2 = w2  o1 = o1  o2 = o2  o3 = o3  o4 = o4  shoe = shoe  bean = bean  shop = shop  store = store
    All = All  None = None
    Workers = {w1, w2}
    Offers = {o1, o2, o3, o4}
    ProductOf <- TheProducts
    StoreOf <- TheStores
    Plans <- EachOffer
    Runs <- AnyOrder
    Prices = {1, 2}
    High = 3
    Existing = FALSE
    Window = 0
    AtOnce = 1
    MaxNow = 0
    MaxWrites = 3
    MaxRows = 5
    MaxFaults = 1
INVARIANTS
    Exact
    NoInventedMinimum
    HistoricalMinHonest
PROPERTY
    JobRepairs
CHECK_DEADLOCK FALSE
