CONSTANTS
    Paths <- MCPaths
    Keys <- MCKeys
    KeyOf <- MCKeyOf
    BatchSize = 2
    Leftovers <- MCLeftovers
    Folders <- MCFolders
    Root = "d0"
    FetchPage = 2
    FirstPage = 2
    NextPage = 1
    NoId = ""
    Starts <- MCStarts
    MaxFaults = 2
    MaxChanges = 1
    MaxRetry = 3
    MaxDownloads = 1

SPECIFICATION Spec

INVARIANTS
    FetchAccountsForLoss
    StructsTree
    RetryAccount

PROPERTIES
    FetchImplementsCollection
