\* Two damaged packets, and a retry limit of two.
CONSTANTS
    SeqSpace = 4
    WSlots = 2
    PRetry = 2
    Bct = 3
    NFiles = 1
    FileLen <- Two
    Binary <- AllBinary
    LineFaults = {"damage"}
    MaxFaults = 2
    TimesOut = {}
    LineCap = 2
    Cancels = {}
    IOFaults = {}
    Attrs = TRUE
    SendOption = "auto"
    ObufLen = 2
    PktRest = 1
    Keep = FALSE
SPECIFICATION Spec
INVARIANTS FewFaultsSurvived
CHECK_DEADLOCK FALSE
