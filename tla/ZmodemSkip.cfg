\* A clean line; zmrx runs with -p and has the first of three files already.
CONSTANTS
    NFiles = 3
    Size <- OneOneTwo
    MaxTries = 4
    LineCap = 6
    Manage = "protect"
    Scenarios <- Skip
    MaxSessions = 1
SPECIFICATION Spec
INVARIANTS Integrity
CHECK_DEADLOCK FALSE
