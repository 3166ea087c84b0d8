SPECIFICATION Spec
CONSTANTS
    top = top  sub = sub
    a = a  b = b  c = c  s = s  x = x  y = y
    Makes = {top, sub}
    Top = top
    Jobs <- SomeJobs
    Of <- JobOf
    Runs <- JobRuns
    Lines <- JobLines
    Needs <- NoPrerequisites
    NoError = {}
    NoMake = NoMake
    NoJob = NoJob
    Slots = 3
    LoadLimit = TRUE
    CanFail = {a}
    Killable = {sub}
INVARIANT Sane
