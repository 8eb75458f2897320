SPECIFICATION Spec
CONSTANTS
  collect = collect
  process = process
  deliver = deliver
  NoBound = NoBound
  Services = {collect, process, deliver}
  KindOf <- MCKindOf
  GiveUpAfter <- MCGiveUpAfter
  Stoppable <- MCStoppable
  Spacings <- TwoSpacings
  LongestStart = 2
  FirstWaits <- OneFirstWait
  RetryAfters <- LongRetryAfter
  MaxWait = 3
  StreakCap = 2
  RunCap = 2
  Lifetime = 2
  Chunk = 1
  MaxRequest = 1
  WaitedCap = 5
  Events = {"crash"}
INVARIANTS
  OneRequest
  PackagingIsNext
  TurnsAreShared
PROPERTIES
  OthersMarkersSurvive
  KeepsItsPromise
CHECK_DEADLOCK TRUE
