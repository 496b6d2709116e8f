\* A port of each list and one of both, as 22 is; every attempt may be lost.
CONSTANTS
    Common = {22, 80}
    Risky = {22, 3306}
SPECIFICATION Spec
INVARIANTS MissedOnlyByLosses ToolsHonest
CHECK_DEADLOCK FALSE
