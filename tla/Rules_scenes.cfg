SPECIFICATION SceneSpec
CONSTANTS
    None = None
    Watchlists <- MCLists
    Listings <- MCListings
    Asked <- MCAsked
    MaxLists = 2
    MaxOffers = 4
    PageSize = 2
    Rows <- MCRows
    TableOf <- MCTableOf
    OwnerOf <- MCOwnerOf
    RefersTo <- MCRefersTo
    Account = ann
    Writers = {w1}
    NoRow = NoRow
    MaxChanges = 2
    Wishes <- MCWishes
    Products <- MCProducts
    Length = 2
    Limit = 1
    Catalogues <- MCCatalogues
    Items <- MCItems
    Long = {clifton, mach}
    MaxSynced = 4
    Shoes <- MCShoes
    Texts <- MCTexts
    Space = Space  Nbsp = Nbsp  Comma = Comma  Dot = Dot
    Refused = Refused
    Goods = {1, 2, 3, 4, 5}
    PerPage = 2
    MaxPages = 3
    MaxShopChanges = 2
    Lists = {a1, a2, b1}
    Typed = {ab, a1, a2, b1}
    Starts <- MCStarts
    ShowLimit = 1
    FindLimit = 2
    Messages = {m1}
    Calls = {c1, c2}
    MaxCalls = 2
    Files <- MCFiles
    Operators = {o1, o2}
    MaxSteps = 4
    shoes = shoes  hoka = hoka  nike = nike  p1 = p1  p2 = p2
    s41 = s41  s42 = s42  EU = EU  UK = UK  trail = trail
    clifton = clifton  mach = mach  xt = xt  g1 = g1
    ann = ann  bob = bob
    user = user  session = session  request = request  limits = limits
    advice = advice  list = list  alert = alert
    user2 = user2  request2 = request2  advice2 = advice2
    ab = ab  a1 = a1  a2 = a2  b1 = b1
    nameA = nameA  nameB = nameB  csv = csv  xml = xml
INVARIANTS
    DealsComplete
    DraftsServe
    SyncMakesNoCandidates
    RecordAsMeant
    FetchedOnce
    ReportsTrue
PROPERTIES
    DeletionComplete
    CommandsAsMeant
    AppliedAsWritten
CHECK_DEADLOCK FALSE
