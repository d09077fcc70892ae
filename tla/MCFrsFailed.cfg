CONSTANTS
    MasterList <- MCMasterList
    MaxFiles = 2
    MaxLeft = 1
    PipeCapacity = 1
    MaxLog = 2

SPECIFICATION FairSpec

INVARIANT FailureReported

