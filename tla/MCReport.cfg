CONSTANTS
    File <- MCFile
    filters <- MCFilters
    DupThreshold = 9
    MaxToken = 100
    Trees <- MCTrees
    Workers = {1, 2, 3}
    Capacity = 5
    Garbage = Garbage
    Numeral <- MCNumeral

SPECIFICATION FairSpec

INVARIANTS
    TotalsExact
    ListsAgree
    FullScore

PROPERTIES
    ReportEnds
