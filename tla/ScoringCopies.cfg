\* One secret and one further report suffice.
CONSTANTS
    SecretLimit = 1
    MaxSecrets = 1
    MaxReports = 1
SPECIFICATION RSpec
INVARIANT NoParallelCopies
CHECK_DEADLOCK FALSE
