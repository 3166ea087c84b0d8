\* Two text files, the second shorter than the first.
CONSTANTS
    SeqSpace = 4
    WSlots = 2
    PRetry = 1
    Bct = 3
    NFiles = 2
    FileLen <- TwoOne
    Binary <- AllText
    LineFaults = {}
    MaxFaults = 0
    TimesOut = {}
    LineCap = 2
    Cancels = {}
    IOFaults = {}
    Attrs = TRUE
    SendOption = "auto"
    ObufLen = 3
    PktRest = 1
    Keep = FALSE
SPECIFICATION Spec
INVARIANTS InOrder
CHECK_DEADLOCK FALSE
