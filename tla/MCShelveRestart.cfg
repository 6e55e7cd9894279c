CONSTANTS
    Tasks = {t1, t2, t3}
    Keys = {comic}
    WebPages = {}
    Comics = {comic}
    Pids = {one, two}
    Public = Public
    NoTask = NoTask
    Limit = 1
SPECIFICATION CrashSpec
INVARIANTS
    NoStalePages
PROPERTIES
    FirstWins
    EveryOpenEnds
