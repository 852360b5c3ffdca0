SPECIFICATION Spec
CONSTANTS
  None = None
  Fibers = {main, a, b, c}
  Main = main
  Fds = {}
  RegularFds = {}
  MaxTime = 1
  MaxEvents = 1
  StackDepth = 2
  Groups = {g1, g2}
  Ops <- PlainOps
  Fuel <- Fuel42
SYMMETRY Symmetry
INVARIANTS
  TypeOK
  CancelOnlyByFailure
  LiveExact
  ScopeJoined
  PanicsSurface
PROPERTIES
  DoneIsFinal
