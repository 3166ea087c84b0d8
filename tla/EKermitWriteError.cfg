\* The last buffer of a file cannot be written.
CONSTANTS
    SeqSpace = 4
    WSlots = 2
    PRetry = 1
    Bct = 3
    NFiles = 1
    FileLen <- OneUnit
    Binary <- AllBinary
    LineFaults = {}
    MaxFaults = 0
    TimesOut = {}
    LineCap = 2
    Cancels = {}
    IOFaults = {"write"}
    Attrs = TRUE
    SendOption = "auto"
    ObufLen = 2
    PktRest = 1
    Keep = FALSE
SPECIFICATION Spec
INVARIANTS Agreement
CHECK_DEADLOCK FALSE
