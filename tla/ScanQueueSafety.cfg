\* Two jobs and two concurrent cancel requests: enough to lose a job, to run one
\* twice and to stop the worker.  No symmetry: the run checks liveness too.
CONSTANTS
    Jobs = {j1, j2}
    Cancels = {t1, t2}
SPECIFICATION FairSpec
INVARIANTS NothingLost ServedOnce WorkerServes CompletedIsStored
PROPERTIES FinalUnlessDisturbed ImplementsService CancelSettles EverySubmissionEnds
CHECK_DEADLOCK FALSE
