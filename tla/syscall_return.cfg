\* One CPU whose threads yield.
CONSTANTS
    c1 = c1
    e1 = e1
    CPUs = {c1}
    BSP = c1
    MaxThreads = 5
    Events = {e1}
    MaxCount = 0
    Ops = {"yield"}
    LoadResults = {TRUE}
SPECIFICATION Spec
INVARIANT PreemptedKeepsRax
