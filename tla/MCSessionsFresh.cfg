CONSTANTS
    Browsers = {b1, b2}
    Requests = {r1, r2}
    Users = {u, v}
    AccountIds = {a1, a2}
    ProfileIds = {p1, p2}
    NoUser = NoUser
    NoProfile = NoProfile
    NoCookie = NoCookie
    Sentinel = Sentinel
    Before = Before
    MaxProfiles = 2
    SessionTtl = 1
    MaxClock = 0
    MaxVersion = 2
SYMMETRY Symmetry
SPECIFICATION FreshSpec
INVARIANTS
    TypeOK
    OneAdmin
    CookiesAreOwn
PROPERTIES
    PickingRevivesNothing
CHECK_DEADLOCK FALSE
