\* A clean line; the session is aborted at any moment and run again.
CONSTANTS
    NFiles = 2
    Size <- TwoOne
    MaxTries = 4
    LineCap = 6
    Manage = "none"
    Scenarios <- Interrupted
    MaxSessions = 2
SPECIFICATION FairSpec
PROPERTIES Recovers
CHECK_DEADLOCK FALSE
