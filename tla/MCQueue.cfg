SPECIFICATION Spec
CONSTANTS
  A = A
  B = B
  C = C
  X = X
  Y = Y
  Task = {A, B, C}
  NoTask = NoTask
  Item = {X, Y}
  NoItem = NoItem
  uxLength = 2
  uxPriority <- OnePriority
  Calls = {"back", "receive"}
  Waits = {"some"}
  IsrCalls = {"front", "receive"}
  Aborts = FALSE
SYMMETRY Alike
INVARIANTS
  LockedBySuspender ReceiversWoken SendersWoken
PROPERTY ImplementsFifo
