SPECIFICATION FairSpec
CONSTANTS
  A = A
  B = B
  C = C
  Idle = Idle
  Task = {A, B, Idle}
  NoTask = NoTask
  ListEnd = ListEnd
  configMAX_PRIORITIES = 2
  TickMod = 3
  Delays = {1}
  ApiCalls = {"app", "delay", "wait"}
  PortOptimised = FALSE
  MaxNest = 1
  MaxPended = 1
INVARIANT
  EventListInPriorityOrder
PROPERTIES
  DelayEnds TimeSlicing
