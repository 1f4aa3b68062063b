SPECIFICATION FairSpec
CONSTANTS
  L = L
  M = M
  H = H
  Idle = Idle
  Task = {L, M, H, Idle}
  NoTask = NoTask
  m1 = m1
  m2 = m2
  Mutexes = {m1}
  NoMutex = NoMutex
  Recursive = {}
  configMAX_PRIORITIES = 4
  CreatedWith <- ThreePriorities
  BlockTimes = {"none", "ticks", "ever"}
  NewPriorities = {}
  PortOptimised = TRUE
  MaxRecursion = 2
INVARIANTS
  NoInversion InheritsForAWaiter FreeMutexIsSought
PROPERTY
  HighestTaskServed
