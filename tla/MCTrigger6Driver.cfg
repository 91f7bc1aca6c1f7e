SPECIFICATION FairDriverSpec
CONSTANTS
    wide = wide
    wide_reduced = wide_reduced
    small = small
    unlisted = unlisted
    DisplayModes = {wide, wide_reduced, small, unlisted}
    NoMode = NoMode
    Resolution <- MCResolution
    Table <- MCTable
INVARIANTS
    DeviceFollows
PROPERTIES
    UnpluggedIsUnbound
