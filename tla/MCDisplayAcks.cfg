SPECIFICATION FairAckSpec
\* The last run ends.
CHECK_DEADLOCK FALSE
CONSTANTS
    MaxId = 15
    Records <- MCRecords
    PictureLen = 21
    PayloadAddrs = {100}
    Grain = 8
    Trim = 2
    Padding = 4
    MaxRuns = 2
    FramesPerRun = 2
    MaxUndecoded = 2
    MaxUnread = 2
INVARIANTS
    AckIsOwn
    UndecodedIsKept
PROPERTIES
    WaitEnds
