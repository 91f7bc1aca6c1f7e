SPECIFICATION FairSpec
CONSTANTS
    big = big
    small = small
    arrow = arrow
    wide = wide
    file1 = file1
    file2 = file2
    None = None
    Fbs = {big, small}
    Cursors = {arrow, wide}
    Files = {file1, file2}
    Kind <- MCKind
    Size <- MCSize
    Format <- MCFormat
    Positions <- MCPositions
    RectUpdates = {arrow}
    EventSpace = 1
    MAX_DIRTS = 3
    Workloads <- MCWorkloads
CHECK_DEADLOCK FALSE
INVARIANTS
    DirtCoversDamage
    FlipHeldOnce
    BuffersOutliveUsers
    NoLostWakeup
    LatestMoveSurvives
    NoCursorTrail
PROPERTIES
    FlipIsAnswered
