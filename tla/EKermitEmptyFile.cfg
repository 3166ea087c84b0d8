\* A clean line and an empty file.
CONSTANTS
    SeqSpace = 4
    WSlots = 2
    PRetry = 1
    Bct = 3
    NFiles = 1
    FileLen <- OneEmpty
    Binary <- AllBinary
    LineFaults = {}
    MaxFaults = 0
    TimesOut = {}
    LineCap = 2
    Cancels = {}
    IOFaults = {}
    Attrs = TRUE
    SendOption = "auto"
    ObufLen = 2
    PktRest = 1
    Keep = FALSE
SPECIFICATION Spec
INVARIANTS CleanSucceeds
CHECK_DEADLOCK FALSE
