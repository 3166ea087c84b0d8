\* A buffer that is full cannot be written.
CONSTANTS
    SeqSpace = 4
    WSlots = 2
    PRetry = 1
    Bct = 3
    NFiles = 1
    FileLen <- Three
    Binary <- AllBinary
    LineFaults = {}
    MaxFaults = 0
    TimesOut = {}
    LineCap = 2
    Cancels = {}
    IOFaults = {"write"}
    Attrs = TRUE
    SendOption = "auto"
    ObufLen = 2
    PktRest = 1
    Keep = FALSE
SPECIFICATION Spec
INVARIANTS NoOverrun
CHECK_DEADLOCK FALSE
