CONSTANTS
    Ips = {a, b}
    NoIp = NoIp
    Users = {u, v}
    NoUser = NoUser
    Window = 2
    HardMaxIp = 2
    TarpitFree = 1
    TarpitBase = 1
    TarpitCap = 2
    MaxKeys = 1
    MaxClock = 2
    MaxFailures = 5
SYMMETRY Symmetry
SPECIFICATION HSpec
INVARIANTS
    TypeOK
    FailureBudget
    HistoryInv
PROPERTIES
    AnswersAsUnbounded
CHECK_DEADLOCK FALSE
