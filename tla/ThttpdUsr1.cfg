\* SIGUSR1 at any moment.
SPECIFICATION FairSpec
CONSTANTS
    MaxConnects = 2
    NumThrottles = 1
    MaxThrottleNums = 1
    Listeners = 1
    IdleEvery = 2
    LingerTime = 1
    IdleReadTimeLimit = 1
    IdleSendTimeLimit = 2
    MaxPause = 2
    Collisions = FALSE
PROPERTY UsrOneEnds
CHECK_DEADLOCK FALSE
