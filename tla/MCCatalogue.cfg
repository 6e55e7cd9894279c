CONSTANTS
    a = a
    b = b
    c = c
    d = d
    a1 = a1
    a2 = a2
    b1 = b1
    first = first
    second = second
    MaxLinks = 3
    ShowCovers = TRUE
    LinkLists <- MCLinkLists
    RowLists <- MCRowLists
    Requests = {r1, r2}
    Pages = {a, b, c, d}
    Links = {a1, a2, b1}
    PageOf <- MCPageOf
    Libraries = {first, second}
    Root <- MCRoot
    Leads <- MCLeads
    WithBooks = {c}
    Advertising = {first}
    Ttl = 1
    MaxEntries = 2
    Budget = 4
    LongestFetch = 1
    MaxNow = 3
    MaxEdition <- MCMaxEdition
SPECIFICATION Spec
INVARIANTS
    TypeOK
    NoBookMissed
    PageShows
PROPERTIES
    MirrorsLibraries
CONSTRAINT Separately
CHECK_DEADLOCK FALSE
