\* A wakeup timer may share the idle timer's bucket.
SPECIFICATION Spec
CONSTANTS
    MaxConnects = 2
    NumThrottles = 1
    MaxThrottleNums = 1
    Listeners = 1
    IdleEvery = 2
    LingerTime = 1
    IdleReadTimeLimit = 1
    IdleSendTimeLimit = 2
    MaxPause = 2
    Collisions = TRUE
INVARIANT TimersFreedOnce
CHECK_DEADLOCK FALSE
