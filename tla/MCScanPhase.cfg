CONSTANTS
    Entries <- MCEntries
    Meta <- MCMeta
    BaseName <- MCBaseName
    NoFilter = "NoFilter"
    CPUs = {4, 6, 9}
    DupThreshold = 1
    None = None

SPECIFICATION FairSpec

INVARIANTS
    TypeOK
    ResultsBeforeCount
    ReportComplete
    CountNumAgrees
    EndsOnlyOnCount
    PanicSparesReport

PROPERTIES
    FrozenAfterDone
    
    ImplementsContract
