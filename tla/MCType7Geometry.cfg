SPECIFICATION UpdateSpec
\* A frame that is refused ends the run.
CHECK_DEADLOCK FALSE
CONSTANTS
    Width = 10
    Height = 6
    Grain = 4
    Block = 4
    HeaderGap = 3
    FlipHeader = 5
    Corner = 4
    Parts = 2
    Updates <- MCUpdates
    Dirty <- MCDirty
INVARIANTS
    TileCoversChange
    UpdateLandsOnThePicture
    PicturesAreRight
