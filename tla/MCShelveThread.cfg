CONSTANTS
    Tasks = {t1, t2}
    Keys = {epub, comic}
    WebPages = {}
    Comics = {comic}
    Pids = {one}
    Public = Public
    NoTask = NoTask
    Limit = 1
SPECIFICATION SteadySpec
INVARIANTS
    NoHalfBook
CHECK_DEADLOCK FALSE
