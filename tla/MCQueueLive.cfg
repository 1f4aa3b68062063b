SPECIFICATION FairSpec
CONSTANTS
  A = A
  B = B
  C = C
  X = X
  Y = Y
  Task = {A, B}
  NoTask = NoTask
  Item = {X}
  NoItem = NoItem
  uxLength = 1
  uxPriority <- OnePriority
  Calls = {"back", "overwrite", "receive", "peek", "reset"}
  Waits = {"none", "forever"}
  IsrCalls = {"overwrite", "receive", "peek"}
  Aborts = TRUE
PROPERTIES
  ReceiverServed SenderServed 
