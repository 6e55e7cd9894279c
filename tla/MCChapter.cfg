CONSTANTS
    Tags <- MCTags
    AttrLists <- MCAttrLists
    MaxDepth = 2
    MaxElements = 4
    MaxFlatten = 1
    MaxEvents = 6
    MaxSkip = 1
    MaxTocDepth = 1
    MaxWalk = 1
    MaxEntries = 2
    RunLength = 2
    MaxChapters = 2
    MaxPages = 4
    PdfOutlines <- MCPdfOutlines
    Navs <- MCNavs
    ChapterOf <- MCChapterOf
SPECIFICATION Spec
INVARIANTS
    WellNested
    TextKept
    AnchorsHit
    ContentsLead
CHECK_DEADLOCK FALSE
