SPECIFICATION Spec
CONSTANTS
  A = A
  B = B
  C = C
  X = X
  Y = Y
  Task = {A, B}
  NoTask = NoTask
  Item = {X}
  NoItem = NoItem
  uxLength = 1
  uxPriority <- OnePriority
  Calls = {"back", "receive"}
  Waits = {"some", "forever"}
  IsrCalls = {"back", "receive"}
  Aborts = TRUE
SYMMETRY Alike
INVARIANT
  EndsForItsOwnCause
