CONSTANTS
    Starts <- MCStarts
    Workers = {1, 2, 3}
    Capacity = 2

SPECIFICATION FairSpec

INVARIANTS
    Accounted

PROPERTIES
    EndsOrSleeps
