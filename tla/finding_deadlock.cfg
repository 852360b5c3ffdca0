SPECIFICATION Spec
CONSTANTS
  None = None
  Fibers = {main, a, b, c}
  Main = main
  Fds = {}
  RegularFds = {}
  MaxTime = 0
  MaxEvents = 1
  StackDepth = 4
  Groups = {g1, g2}
  Ops <- ValueOps
  Fuel <- Fuel42
SYMMETRY Symmetry
INVARIANTS
  DeadlockIsDiagnosed
