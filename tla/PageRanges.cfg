\* Five pages in two chunks; blocks and lists of one to three pages.
CONSTANTS
    Chunks <- MCChunks
    Boundary16 = 5
    Boundary1 = 4
    Align = 3
    Sizes = {1, 2, 3}
    Flags <- MCFlags
SPECIFICATION FairSpec
INVARIANTS RangesSane PagesPartitioned ListAddsUp
PROPERTIES FailsOnlyWithoutMemory CallsEnd
CHECK_DEADLOCK FALSE
