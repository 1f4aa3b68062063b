SPECIFICATION Spec
CONSTANTS
  A = A
  B = B
  C = C
  Idle = Idle
  Task = {A, B, Idle}
  NoTask = NoTask
  ListEnd = ListEnd
  configMAX_PRIORITIES = 3
  TickMod = 3
  Delays = {1, 2}
  ApiCalls = {"app", "delay", "wait", "catchUp", "abort", "suspend", "delete", "priority"}
  PortOptimised = TRUE
  MaxNest = 1
  MaxPended = 1
SYMMETRY Workers
INVARIANTS
  TypeOK OneStateList TaskCountExact EventItemsSound ClockSound
  TopPriorityRecorded HighestRuns NothingLeftPending
PROPERTIES
  SuspensionProtectsLists TickNeverWakesEarly
