\* Four targets and two permits: tasks wait, are granted permits, and overtake.
CONSTANTS
    N = 4
    Concurrency = 2
    Cancels = {t1, t2}
SPECIFICATION FairSpec
INVARIANTS PermitsConserved CountersAgree CompletedCoversAll
PROPERTIES ImplementsBulkJob BulkScanEnds CancelSettles
CHECK_DEADLOCK FALSE
