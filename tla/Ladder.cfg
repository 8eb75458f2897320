SPECIFICATION FairSpec
CONSTANTS
  Top = 3
  ThreeX = 2
  FourX = 2
  Window = 3
  MinRequests = 2
  DropPercent = 30
  DropTwoPercent = 50
  DropStreak = 2
  ClimbAfter = 2
  ClimbAfterAbove = 3
  ClimbsPerDay = 1
  Cautious <- MCCautious
  TallyCap = 3
  MemoryFirst = 1
  MemoryMax = 2
  HoldFor = 2
  CleanDay = 1
  DemandHold = 1
  DemandEase = 1
  DemandMin = 2
  EaseAfter = 1
  ClearAfter = 4
  ConnectionErrors = 2
  ConnectionWindow = 0
  PauseAfter = 1
  DayLength = 2
  Signals <- MCSignals
INVARIANTS
  EvidenceIsOfThisLevel
  FallsAreHeld
PROPERTIES
  OnlyPersistentBlocksPause
  DroppedLevelsRest
  Recovers
CHECK_DEADLOCK TRUE
