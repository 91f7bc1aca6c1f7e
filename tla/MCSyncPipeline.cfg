SPECIFICATION FairSpec
CONSTANTS
    Interval = 2
    Divisor = 2
    Throttle = TRUE
    DropLate = TRUE
    Adaptive = TRUE
    MinQuality = 19
    Quality = 20
    Limits <- AnyLimit
    MaxTime = 12
    MaxFrames = 4
INVARIANT
    NoBurst
PROPERTY
    StopEnds
