\* Two ports; with a cap of 1 an answer to a retransmission hits it, with 2 it sends
\* the bench to the retry stack.  Bound: one ping, after two probes.
CONSTANTS
    Ports = {x, y}
    NoPort = NoPort
    Caps = {1, 2}
    MaxSockets = 2
    PingEvery = 2
    MaxPings = 1
SPECIFICATION FairSpec
INVARIANTS Accounting NoPortForgotten TriesAllowed MissedOnlyByLosses
PROPERTIES GivesUpLast ScanEnds
CHECK_DEADLOCK FALSE
