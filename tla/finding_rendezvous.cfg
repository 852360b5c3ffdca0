SPECIFICATION ChanSpec
CONSTANTS
  None = None
  Fibers = {main, a, b}
  Main = main
  Fds = {}
  RegularFds = {}
  MaxTime = 0
  MaxEvents = 1
  StackDepth = 1
  Groups = {g1}
  ch1 = ch1
  ch2 = ch2
  Channels = {ch1}
  Capacity <- Cap0
  ArmLists <- NoArms
  Ops <- MeetOps
  Fuel <- Fuel42
SYMMETRY Symmetry
INVARIANT
  SendMeetsReceive
