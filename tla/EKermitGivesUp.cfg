\* The receiver's last packet is lost; the sender times out.
CONSTANTS
    SeqSpace = 4
    WSlots = 2
    PRetry = 1
    Bct = 3
    NFiles = 1
    FileLen <- OneUnit
    Binary <- AllBinary
    LineFaults = {"lose"}
    MaxFaults = 1
    TimesOut = {"S"}
    LineCap = 2
    Cancels = {}
    IOFaults = {}
    Attrs = TRUE
    SendOption = "auto"
    ObufLen = 2
    PktRest = 1
    Keep = FALSE
SPECIFICATION FairSpec
PROPERTIES BothEnd
