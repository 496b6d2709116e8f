\* One row of an earlier program; nothing else happens to the process.
CONSTANTS
    Legacy = 1
    MaxSaves = 0
    MaxCrashes = 0
SPECIFICATION Safe
INVARIANT NoStaleTable
CHECK_DEADLOCK FALSE
