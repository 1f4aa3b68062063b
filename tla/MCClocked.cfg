SPECIFICATION ClockedSpec
CONSTANTS
  Timer = {t1, t2}
  NoTimer = NoTimer
  Periods = {1, 3}
  configTIMER_QUEUE_LENGTH = 1
  MaxLag = 1
  TickMod = 5
  OverflowMod = 3
  MaxUnchecked = 5
  Increments = {1, 2, 4}
  Words = 8
  NUM_LINES = 4
  Tags = {1, 2, 3}
  Value = {0, 1}
  Delays = {1, 3, 4}
  MaxPended = 2
  configEXPECTED_IDLE_TIME_BEFORE_SLEEP = 2
  NoTask = NoTask
  Worker = {w1, w2}
  Queues = {q1, q2}
  Timers = {timer}
  EventGroups = {group}
  Priorities = {1, 2}
  configQUEUE_REGISTRY_SIZE = 2
  configMAX_TASK_NAME_LEN = 3
  BufferLengths = {1, 3, 5, 9}
  RowLengths <- Rows
SYMMETRY Alike
INVARIANTS
  BlockTimesExact ExpiriesCalled  NoneOversleeps ObjectsSound ReportsTrue
