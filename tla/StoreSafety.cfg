\* Two calls, two accounts and a third registered later, one more report, two
\* of the four child tables, one restart with a new key.
CONSTANTS
    Calls = {c1, c2}
    Accounts = 2
    Tables = 2
    KeyFixed = FALSE
    MaxAccounts = 3
    MaxReports = 3
    MaxRestarts = 1
SYMMETRY Symmetry
SPECIFICATION Spec
INVARIANTS NoImpersonation TornOnlyByDeletion ChildrenFollow RefusedOnlyByRace
PROPERTY OnlyOwnersDelete
CHECK_DEADLOCK FALSE
