CONSTANTS
    ann = ann
    web = web
    bot = bot
    c1 = c1
    c2 = c2
    Users = {ann}
    Allowed = {ann}
    Pages = {web, bot}
    UserOf <- WebAndBot
    Bots = {bot}
    Calls = {c1, c2}
    PageOf <- CallEach
    AccessTTL = 0
    RefreshTTL = 1
    MaxNow = 2
    MaxStarts = 5
    MaxErasures = 2
    MaxFaults = 1
SPECIFICATION Spec
INVARIANTS TypeOK NoGhosts SessionLasts
PROPERTY ExpiredRemoved
CHECK_DEADLOCK FALSE
