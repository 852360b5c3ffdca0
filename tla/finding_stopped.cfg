SPECIFICATION DaemonSpec
CONSTANTS
  None = None
  Clients = {"a", "b"}
  DefaultKey = "plain"
  Keys <- Flags
  SourcesOf <- Files
  Explicit = {}
  Needs <- IyiNeeds
  Output <- ShortOutput
  Sound = {"a", "b"}
  WellFormed = {"a", "b"}
  Limit = 3
  Broken = {}
  MayHappen = {"hang up"}
  MaxTroubles = 1
  MaxStarts = 1
INVARIANTS
  OptInNeverStops
