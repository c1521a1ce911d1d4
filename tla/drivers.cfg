SPECIFICATION Spec
CONSTANTS
    NEntries = 3
    IndexModulus = 8
    NsSize <- Sizes
    MaxReads = 7
    AhPorts = 2
    AhSlots = 2
    AhMaxReads = 3
    XhLayouts <- Layouts
    XhRing = 4096
    XhWrap = 9
    XhMaxStrings = 2
    ZtThreads = {1}
    ZtPaths <- Paths
    ZtMaxFd = 6
    ZtMaxCalls = 3
INVARIANTS
    DriversTypeOK
    AhSlotsAccounted
    AtIdentifiesItsDrive
    XhPortsReady
    XhIrqHasEvent
    ZtResolves
    
PROPERTIES
    
    CommandsFinish
CHECK_DEADLOCK FALSE
