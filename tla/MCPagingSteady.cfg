CONSTANTS
    Devices = {d1, d2}
    Books <- SmallBooks
    Sizes = {2, 4, Whole}
    Whole = Whole
    Closed = Closed
    Missing = Missing
    None = None
SYMMETRY Symmetry
SPECIFICATION SteadySpec
INVARIANTS
    TypeOK
    EveryBlockHasItsPage
    LinksMeet
    NothingSkipped
PROPERTIES
    ProgressOnward
