\* A clean line; zmrx runs with -p and has the file already, with another date.
\* The session is aborted once and run again.
CONSTANTS
    NFiles = 1
    Size <- TwoBlocks
    MaxTries = 4
    LineCap = 6
    Manage = "protect"
    Scenarios <- SkipAgain
    MaxSessions = 2
SPECIFICATION Spec
INVARIANTS Protected
CHECK_DEADLOCK FALSE
