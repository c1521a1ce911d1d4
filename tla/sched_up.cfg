\* One CPU, every system call.
CONSTANTS
    c1 = c1
    e1 = e1
    CPUs = {c1}
    BSP = c1
    MaxThreads = 5
    Events = {e1}
    MaxCount = 1
    Ops = {"yield", "block", "silent", "fork", "kill"}
    LoadResults = {TRUE}
SPECIFICATION FairSpec
INVARIANTS TypeOK NoThreadLost ResumesWhereItStopped NeverSpins
PROPERTIES BlockedUntilTriggered NoStarvation WakeupDelivered
