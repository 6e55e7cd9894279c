CONSTANTS
    Books = {a, b}
    Spots = {x, y, z}
    ShelfIds = {s, t}
    MaxFavorites = 1
    MaxReading = 1
    MaxHistory = 1
    MaxBookmarkBooks = 1
    MaxBookmarksPerBook = 2
    MaxShelves = 1
    MaxShelfItems = 1
    MaxClock = 3
SYMMETRY Symmetry
SPECIFICATION SteadySpec
INVARIANTS
    TypeOK
    LoadIsLossless
    ReadYourWrites
PROPERTIES
    OldestFirst
