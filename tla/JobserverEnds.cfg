SPECIFICATION FairSpec
CONSTANTS
    top = top  sub = sub
    a = a  b = b  c = c  s = s  x = x  y = y
    Makes = {top, sub}
    Top = top
    Jobs <- SomeJobs
    Of <- JobOf
    Runs <- JobRuns
    Lines <- EmptyLines
    Needs <- BNeedsA
    NoError = {x}
    NoMake = NoMake
    NoJob = NoJob
    Slots = 2
    LoadLimit = TRUE
    CanFail = {x}
    Killable = {}
PROPERTY BuildEnds
