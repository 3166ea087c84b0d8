\* Both sides time out at any moment, so packets and answers are duplicated
\* and overtaken by the timers; the smallest sequence number space.
CONSTANTS
    SeqSpace = 3
    WSlots = 2
    PRetry = 1
    Bct = 3
    NFiles = 1
    FileLen <- Two
    Binary <- AllBinary
    LineFaults = {"damage", "lose"}
    MaxFaults = 2
    TimesOut = {"S", "R"}
    LineCap = 2
    Cancels = {}
    IOFaults = {}
    Attrs = TRUE
    SendOption = "auto"
    ObufLen = 1
    PktRest = 1
    Keep = FALSE
SPECIFICATION FairSpec
INVARIANTS Link InOrder
PROPERTIES ReceiverEnds
