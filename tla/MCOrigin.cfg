CONSTANTS
    Paths <- MCPaths
    Keys <- MCKeys
    KeyOf <- MCKeyOf
    BatchSize = 2
    Leftovers <- MCLeftovers
    Workers = {w1, w2}
    None = None

SPECIFICATION FairSpec

INVARIANTS
    TypeOK
    NoFileLost
    ReturnIsComplete
    CountMatchesEntries
    BoundedLoss

PROPERTIES
    OriginEnds
    ImplementsCollection
