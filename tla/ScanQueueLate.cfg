\* One job and one cancel request that arrives while the result is being saved.
CONSTANTS
    Jobs = {j1}
    Cancels = {t1}
SPECIFICATION Spec
PROPERTY CancelledNeverCompletes
CHECK_DEADLOCK FALSE
