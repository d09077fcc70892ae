CONSTANTS
    Programs = {"mysql", "oracle", "mssql"}
    Tables <- MCTables
    Threads = {0, 1, 2}
    Size = 2
    Half = 2
    MaxRounds = 4
    MaxFaults = 2
    MaxDeletes = 1

SPECIFICATION FairSpec

INVARIANTS
    CleanVerdict
    DetectionTrue
    EntropyWindow

PROPERTIES
    DetectionEnds
