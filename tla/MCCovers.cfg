CONSTANTS
    one = one
    two = two
    r1 = r1
    r2 = r2
    r3 = r3
    Requests = {r1, r2, r3}
    Processes = {one, two}
    ProcessOf <- MCProcessOf
    Takes <- MCTakes
    Urls = {c1, foreign}
    Allowed = {c1}
    CoverUrls = {c1}
    MaxHops = 2
    PoolSize = 1
    MaxChunks = 1
    CoverSize = 2
    TypeSize = 1
    Limit = 4
SPECIFICATION Spec
INVARIANTS
    OneConnectionEach
    WholeCovers
    CoversFit
PROPERTIES
    FeedsEnd
CHECK_DEADLOCK FALSE
