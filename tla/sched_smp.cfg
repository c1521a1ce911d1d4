\* Two CPUs from power-on: boot, timer interrupts and the calls that leave a
\* thread in a consistent state.  The machine may really stop here (README).
CONSTANTS
    c1 = c1
    c2 = c2
    e1 = e1
    CPUs = {c1, c2}
    BSP = c1
    MaxThreads = 5
    Events = {e1}
    MaxCount = 0
    Ops = {"yield", "silent", "fork"}
    LoadResults = {TRUE, FALSE}
SPECIFICATION Spec
INVARIANT OneCpu
CHECK_DEADLOCK FALSE
