CONSTANTS
    Tasks = {t1, t2, t3}
    Keys = {epub, page1, page2}
    WebPages = {page1, page2}
    Comics = {}
    Pids = {one}
    Public = Public
    NoTask = NoTask
    Limit = 1
SYMMETRY Symmetry
SPECIFICATION SteadySpec
INVARIANTS
    TypeOK
    OneBuilder
    NoHalfBook
    NothingLeftBehind
    CacheFits
