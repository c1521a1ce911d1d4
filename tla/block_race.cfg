\* Two CPUs whose threads block on an event.
CONSTANTS
    c1 = c1
    c2 = c2
    e1 = e1
    CPUs = {c1, c2}
    BSP = c1
    MaxThreads = 5
    Events = {e1}
    MaxCount = 1
    Ops = {"block"}
    LoadResults = {TRUE}
SPECIFICATION Spec
INVARIANT OneCpu
CHECK_DEADLOCK FALSE
