SPECIFICATION Spec
CONSTANTS
    Displays = {0, 1}
    Modes = {720, 1080}
    Slots = {0, 1, 2}
    QueueHigh = 1
    None = None
    Workloads <- HotplugWorkloads
CHECK_DEADLOCK FALSE
INVARIANTS
    UnplugDetaches
