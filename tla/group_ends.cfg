SPECIFICATION FairSpec
CONSTANTS
  None = None
  Fibers = {main, a, b}
  Main = main
  Fds = {d1, d2}
  RegularFds = {}
  MaxTime = 1
  MaxEvents = 1
  StackDepth = 1
  Groups = {g1, g2}
  Ops <- EndOps
  Fuel <- Fuel32
INVARIANTS
  NeverDeadlocked
PROPERTIES
  Terminates
  ReadableWakes
