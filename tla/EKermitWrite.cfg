\* Calls that fail on either side, writing a packet to the line included.
CONSTANTS
    SeqSpace = 4
    WSlots = 2
    PRetry = 1
    Bct = 3
    NFiles = 2
    FileLen <- ThreeOne
    Binary <- AllBinary
    LineFaults = {"damage"}
    MaxFaults = 1
    TimesOut = {"S"}
    LineCap = 2
    Cancels = {"S file"}
    IOFaults = {"tx", "openr", "openw", "write", "close"}
    Attrs = TRUE
    SendOption = "auto"
    ObufLen = 2
    PktRest = 1
    Keep = FALSE
SPECIFICATION Spec
INVARIANTS InOrder InStep
CHECK_DEADLOCK FALSE
