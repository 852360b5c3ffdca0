SPECIFICATION LspFairSpec
CONSTANTS
  None = None
  Files <- AllFiles
  Info <- AllTexts
  Garbled = "garbled"
  Endless = {"app"}
  Keep = 5
  MaxCancelled = 1
  Clients <- Everyone
INVARIANTS
  ViewsAgree
  PublishedIsCurrent
  UnchangedIsTrue
  FootprintBounded
  EveryStepHolds
PROPERTIES
  VerdictSeesBuffers
  AnsweredOnce
  SessionEnds
