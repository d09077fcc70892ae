CONSTANTS
    Paths = {"/opt/baits", "/opt/baits2"}
    Containing <- MCContaining
    FILES = {"f1", "f2"}
    Unwatchers = {1}
    Forces = {TRUE}
    Monitors = {1}
    MaxPid = 4
    MaxFaults = 1

SPECIFICATION Spec

PROPERTIES
    ForceErases

CHECK_DEADLOCK FALSE
