SPECIFICATION Spec
CONSTANTS
  L = L
  M = M
  H = H
  Idle = Idle
  Task = {L, M, H, Idle}
  NoTask = NoTask
  m1 = m1
  m2 = m2
  Mutexes = {m1, m2}
  NoMutex = NoMutex
  Recursive = {m2}
  configMAX_PRIORITIES = 3
  CreatedWith <- TwoLow
  BlockTimes = {"ticks"}
  NewPriorities = {2}
  PortOptimised = FALSE
  MaxRecursion = 2
SYMMETRY Alike
INVARIANTS
  MutualExclusion BasePriorityKept OneList
CHECK_DEADLOCK FALSE
