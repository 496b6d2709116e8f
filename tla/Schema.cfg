\* Two rows of an earlier program, two reports, three crashes anywhere.
CONSTANTS
    Legacy = 2
    MaxSaves = 2
    MaxCrashes = 3
SPECIFICATION Spec
INVARIANTS StoredIsKept UpIsUsable SoundUnlessMigrated
PROPERTY ComesUp
CHECK_DEADLOCK FALSE
