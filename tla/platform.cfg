SPECIFICATION Spec
CONSTANTS
    Machines <- MCMachines
    CPUs = {0}
    PciDepth = 4
    Tids = {1, 2}
    MaxTriggers = 1
    MaxStarts = 1
    Frames = {1, 2}
    GuestPages = {1}
INVARIANTS
    RoutesMatchFirmware
    
    
    GuestLeavesNoTrace
CHECK_DEADLOCK FALSE
