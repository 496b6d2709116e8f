\* Two starts, two requests under way, so that answers overtake each other within
\* a job and between jobs, and one error; one target tells a partial report from
\* a complete one.
CONSTANTS
    N = 1
    MaxStarts = 2
    MaxPolls = 2
    MaxErrors = 1
SPECIFICATION Spec
INVARIANT RestShowsTheEnd
PROPERTIES PollingStops ResultsAreShown
CHECK_DEADLOCK FALSE
