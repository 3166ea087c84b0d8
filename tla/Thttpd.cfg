\* Two slots, two listening sockets; no two timers share a bucket.
SPECIFICATION FairSpec
CONSTANTS
    MaxConnects = 2
    NumThrottles = 1
    MaxThrottleNums = 1
    Listeners = 2
    IdleEvery = 2
    LingerTime = 1
    IdleReadTimeLimit = 1
    IdleSendTimeLimit = 2
    MaxPause = 2
    Collisions = FALSE
INVARIANTS TypeOK TimersMatch WatchMatches ThrottlesExact FreeListSound TimersFreedOnce
PROPERTY SlotsComeBack
CHECK_DEADLOCK FALSE
