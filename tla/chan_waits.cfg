SPECIFICATION ChanSpec
CONSTANTS
  None = None
  Fibers = {main, a, b}
  Main = main
  Fds = {d1, d2}
  RegularFds = {d2}
  MaxTime = 2
  MaxEvents = 1
  StackDepth = 1
  Groups = {g1}
  ch1 = ch1
  ch2 = ch2
  Channels = {ch1}
  Capacity <- Cap0
  ArmLists <- NoArms
  Ops <- TalkOps
  Fuel <- Fuel42
SYMMETRY Symmetry
INVARIANTS
  QueueExact
  ReadNeverBlocks
  ParkedForReason
  NobodyStarves
  CancelReachesBlocked
PROPERTY SleepersWakeOnTime
