SPECIFICATION Spec
CONSTANTS
  SmpMachines <- MCMachines
  CPUs = {0, 1, 2, 3}
  Tids = {1, 2}
  n_pcids = 2
  Tables = {1, 2, 3}
  MaxStamp = 4
  MaxLives = 2
  Clients = {a, b}
  Sizes = {40, 8000}
  HeapFrames = 5
  MaxBlocks = 2
  MaxBrk = 28672
INVARIANTS
  HeapSound
  WatchdogQuiet
  
  
CHECK_DEADLOCK FALSE
