\* One fault of any kind but loss, no timeouts and no A packets.
CONSTANTS
    SeqSpace = 4
    WSlots = 2
    PRetry = 1
    Bct = 3
    NFiles = 2
    FileLen <- OneTwo
    Binary <- AllBinary
    LineFaults = {"damage", "short", "noise", "echo"}
    MaxFaults = 1
    TimesOut = {}
    LineCap = 2
    Cancels = {}
    IOFaults = {}
    Attrs = FALSE
    SendOption = "auto"
    ObufLen = 2
    PktRest = 1
    Keep = FALSE
SPECIFICATION FairSpec
PROPERTIES ReceiverFinishes
CHECK_DEADLOCK FALSE
