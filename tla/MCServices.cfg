SPECIFICATION ServicesSpec
CONSTANTS
  A = A
  B = B
  C = C
  NoTask = NoTask
  Task = {A, B, C}
  Bit = {0, 1, 2, 3}
  SyncBit <- OwnBit
  WaitCalls <- GroupCalls
  SetChoices = {{0}}
  MaxPended = 1
  Pair = {A, B}
  Index = {0, 1}
  MaxValue = 1
  NotifyWaits <- NotifyCalls
  Actions = {"eIncrement", "eSetValueWithoutOverwrite", "eSetBits"}
  queue = queue
  mailbox = mailbox
  Member = {queue, mailbox}
  NoMember = NoMember
  uxLength <- Lengths
  uxEventQueueLength = 3
  uxNumberOfTasks = 3
  Overwritten = {mailbox}
  RemovalsRace = FALSE
  uxMaxCount = 2
  uxInitialCount = 1
  uxPriority <- Above
  Waits = {"some"}
  Core = {0, 1}
  NoCore = NoCore
  Worker = {w1, w2}
  Idle0 = Idle0
  Idle1 = Idle1
  Priorities = {1, 2}
  MaxPendedTicks = 1
SYMMETRY Alike
INVARIANTS
  GroupSound NotifySound
  ItemsAnnounced TakersWoken CoresSound RightTasksRun

  
CHECK_DEADLOCK FALSE
