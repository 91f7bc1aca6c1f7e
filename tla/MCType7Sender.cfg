CONSTANTS
    Unit = 1048576
    Padding = 1024
    Header = 48
    Grain = 1024
    Slack = 1104
    Trim = 32
    ResetFrames = 10
    Layout <- MCLayout
    Options <- MCOptions
    CmdRing <- MCShortRing
    SlotBases <- MCSlotBases
    FbSpan = 4194304
    SlotSpan = 4543168
    Cells = {1, 2, 3}
    Frames <- MCFrames
    Tile <- MCTile
    Fullish <- MCFullish
    FallsBack <- MCFallsBack
    FullLens <- MCFullLens
    TileLens = {400000, 1200000}
SPECIFICATION Spec
INVARIANTS
    StaleIsTracked
    CommandsMissFramebuffers
PROPERTIES
    ShownIsUntouched
    RefreshHeals
