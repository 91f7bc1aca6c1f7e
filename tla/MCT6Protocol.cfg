SPECIFICATION Spec
CONSTANTS
    None = None
    ramsize = 54
    Ports = {0, 1}
    Dvo = 0
    Vga = {1}
    Tables <- MCTables
    Monitors <- MCMonitors
    CeaModes <- MCCeaModes
    HdmiModes <- MCHdmiModes
    Generic <- MCGeneric
    FourKEdid <- MCFourKEdid
    Lengths <- MCLengths
    Devices <- MCDevices
    ResetFrames = 2
    MaxFlips = 3
    MaxModes = 2
    MaxUpdates = 1
    Faults = TRUE
INVARIANTS
    FlipsKeepPictures
    LayoutFollowsEdid
    
    CommandsAreRead
CHECK_DEADLOCK FALSE
