SPECIFICATION FairSpec
CONSTANTS
    Accesses = {a1, a2, a3}
    Blocks = {b1, b2, b3}
    NoBlock = NoBlock
    EntriesPerBlock = 2
    MonthsPerYear = 2
    MaxMonth = 2
    MaxCrashes = 3
INVARIANTS
    NothingIsMissed
    SavedIsKept
    CountedOnceUnlessCut
PROPERTIES
    AccessesAreSaved
CHECK_DEADLOCK FALSE
