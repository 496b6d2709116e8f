\* Three secrets of which two are reported, two further reports of any rule; a
\* public schema and open introspection on top.
CONSTANTS
    SecretLimit = 2
    MaxSecrets = 3
    MaxReports = 2
SPECIFICATION RSpec
INVARIANTS ScoreFollowsObservations NothingLost StoredAsReported
CHECK_DEADLOCK FALSE
