\* One file of one block, over a line that loses or damages one item.
CONSTANTS
    NFiles = 1
    Size <- OneBlock
    MaxTries = 4
    LineCap = 6
    Manage = "none"
    Scenarios <- OneFault
    MaxSessions = 1
SPECIFICATION FairSpec
PROPERTIES AckWaitEnds
CHECK_DEADLOCK FALSE
