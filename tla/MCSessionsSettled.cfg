CONSTANTS
    Browsers = {b1}
    Requests = {r1, r2}
    Users = {u, v}
    AccountIds = {a1, a2}
    ProfileIds = {p1, p2, p3}
    NoUser = NoUser
    NoProfile = NoProfile
    NoCookie = NoCookie
    Sentinel = Sentinel
    Before = Before
    MaxProfiles = 2
    SessionTtl = 1
    MaxClock = 1
    MaxVersion = 2
SYMMETRY Symmetry
SPECIFICATION SettledSpec
INVARIANTS
    ProfileCount
    NoOrphanState
    ProfileIsolation
CHECK_DEADLOCK FALSE
