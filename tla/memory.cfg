\* Two threads in six pages, every call but kill.
CONSTANTS
    MaxPage = 11
    StackSize = 10
    Low = 2
    PageSpan = 1024
    Slots = {1, 2}
    MaxVirt = 2
    Levels = 2
    Fanout = 2
    Sizes = {1, 2}
    MaxFrames = 3
    MaxCalls = 1
    Fixed = {0}
    Dropped = 1
    BootInputs <- MCBootInputs
SPECIFICATION FairSpec
INVARIANTS TypeOK FreeOnce OneUse PagesAccounted MappingsRecorded 
PROPERTIES RefinesPhysMem  HandlersFinish
CHECK_DEADLOCK FALSE
