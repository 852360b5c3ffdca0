SPECIFICATION DaemonFairSpec
CONSTANTS
  None = None
  Clients = {"a", "b"}
  DefaultKey = "plain"
  Keys = {"plain", "flagged"}
  SourcesOf <- Files
  Explicit = {"b"}
  Needs <- FlaggedNeeds
  Output <- MixedOutput
  Sound = {"a"}
  WellFormed = {"a"}
  Limit = 2
  Broken = {2}
  MayHappen = {"edit", "rebuild", "vanish", "hang up", "crash", "kill"}
  MaxTroubles = 2
  MaxStarts = 2
INVARIANTS
  OutputIntact
  NothingInherited
  WarmingIsSafe
  SuccessIsEarned
PROPERTIES
  ServedByItsCompiler
  AdoptsCurrent
  EveryClientEnds
