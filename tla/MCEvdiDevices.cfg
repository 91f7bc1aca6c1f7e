SPECIFICATION DevicesSpec
CONSTANTS
    EVDI_DEVICE_COUNT_MAX = 2
    Cards = {0, 1, 2, 3, 4}
    usb1 = usb1
    usb2 = usb2
    p = p
    q = q
    h1 = h1
    h2 = h2
    h3 = h3
    Null = Null
    Server = Server
    Usbs = {usb1, usb2}
    Processes = {p, q}
    Handles = {h1, h2, h3}
    Scenarios <- MCScenarios
CHECK_DEADLOCK FALSE
INVARIANTS
    HandlesOwnCards
    OnlyServerIsMaster
    NoStaleLink
