\* A damaged line, hasty timers, a session that is interrupted and run again,
\* and files that one of the programs cannot or will not open.
CONSTANTS
    NFiles = 2
    Size <- TwoOne
    MaxTries = 4
    LineCap = 6
    Manage = "none"
    Scenarios <- Good
    MaxSessions = 2
SPECIFICATION FairSpec
INVARIANTS TypeOK Integrity SentIsThere Resumable
PROPERTIES NothingLost BothEnd
CHECK_DEADLOCK FALSE
