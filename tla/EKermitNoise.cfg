\* Every line fault, failing call and cancellation on a line without timeouts,
\* where a lost packet stops both sides for good.
CONSTANTS
    SeqSpace = 4
    WSlots = 2
    PRetry = 1
    Bct = 3
    NFiles = 2
    FileLen <- OneTwo
    Binary <- AllBinary
    LineFaults = {"damage", "short", "lose", "noise", "echo"}
    MaxFaults = 2
    TimesOut = {}
    LineCap = 2
    Cancels = {"S file", "S group", "S abort", "R file", "R group", "R abort"}
    IOFaults = {"openr", "openw", "close"}
    Attrs = TRUE
    SendOption = "auto"
    ObufLen = 2
    PktRest = 1
    Keep = FALSE
SPECIFICATION Spec
INVARIANTS TypeOK Link InOrder InStep Agreement DoneComplete
PROPERTIES DoneStays ImplementsTransfer
CHECK_DEADLOCK FALSE
