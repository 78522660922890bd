SPECIFICATION Spec
CONSTANTS
    h1 = h1  h2 = h2  shoes = shoes  coffee = coffee  teapots = teapots
    cheap = cheap  dear = dear  t1 = t1  t2 = t2  None = None
    Handlers = {h1, h2}
    Slugs = {shoes, coffee}
    Texts = {t1, t2}
    Rules <- MCRules
    Llm <- MCLlm
    Overrides <- MCOverrides
    MaxStarts = 4
    MaxLists = 2
INVARIANTS
    TypeOK WatchlistMatches DraftsFollowEdits
PROPERTY
    HandlersEnd
CHECK_DEADLOCK FALSE
