SPECIFICATION Spec
CONSTANTS
    Machines <- SmpMachines
    CPUs = {0, 1}
    PciDepth = 4
    Tids = {1, 2}
    MaxTriggers = 1
    MaxStarts = 1
    Frames = {1, 2}
    GuestPages = {1}
INVARIANT DevctlExclusive
CHECK_DEADLOCK FALSE
