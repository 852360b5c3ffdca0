SPECIFICATION BenchFairSpec
CONSTANTS
  None = None
  Scripts <- Benches
  Machines <- AtMostTwo
  Liars = {"boehm", "go"}
  MaxFails = 1
  Polls = 3
  Runs = 3
  GateRuns = 4
  Constants <- TwoConstants
  Pairs = 2
INVARIANTS
  FigureIsItsRow
  NoFigureFromFailure
  ZeroIsEarned
PROPERTIES
  AgreementIsReal
  BenchEnds
