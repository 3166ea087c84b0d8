SPECIFICATION Spec
CONSTANTS
    top = top  sub = sub
    a = a  b = b  c = c  s = s  x = x  y = y
    Makes = {top, sub}
    Top = top
    Jobs <- MoreJobs
    Of <- JobOf
    Runs <- JobRuns
    Lines <- NothingForY
    Needs <- NoPrerequisites
    NoError = {}
    NoMake = NoMake
    NoJob = NoJob
    Slots = 2
    LoadLimit = FALSE
    CanFail = {}
    Killable = {sub}
INVARIANT JobsLimit
