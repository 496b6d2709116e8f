\* Two scans, two status requests under way, so that answers overtake each
\* other within a scan and between scans, and one error.
CONSTANTS
    MaxScans = 2
    MaxPolls = 2
    MaxErrors = 1
SPECIFICATION Spec
INVARIANTS OneTimer Watched
PROPERTY EndIsShown
CHECK_DEADLOCK FALSE
