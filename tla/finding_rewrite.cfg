SPECIFICATION BenchSpec
CONSTANTS
  None = None
  Scripts <- OnlyIncremental
  Machines <- Sound
  Liars = {}
  MaxFails = 0
  Polls = 0
  Runs = 3
  GateRuns = 4
  Constants <- TwoConstants
  Pairs = 1
PROPERTIES
  EverySampleIsAChange
