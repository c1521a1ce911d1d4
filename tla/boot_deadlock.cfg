\* Two CPUs from power-on, no system calls.
CONSTANTS
    c1 = c1
    c2 = c2
    e1 = e1
    CPUs = {c1, c2}
    BSP = c1
    MaxThreads = 4
    Events = {e1}
    MaxCount = 0
    Ops = {}
    LoadResults = {TRUE}
SPECIFICATION FairSpec
PROPERTY ReachesFirstTask
CHECK_DEADLOCK FALSE
