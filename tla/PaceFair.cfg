SPECIFICATION FairSpec
CONSTANTS
  collect = collect
  process = process
  deliver = deliver
  NoBound = NoBound
  Services = {collect, process}
  KindOf <- MCKindOf
  GiveUpAfter <- MCGiveUpAfter
  Stoppable <- MCStoppable
  Spacings <- OneSpacing
  LongestStart = 2
  FirstWaits <- OneFirstWait
  RetryAfters <- OneRetryAfter
  MaxWait = 2
  StreakCap = 2
  RunCap = 2
  Lifetime = 2
  Chunk = 1
  MaxRequest = 1
  WaitedCap = 5
  Events = {"stop"}
INVARIANTS
  NoGhostInTheQueue
PROPERTIES
  EveryCallReturns
  PatienceIsRewarded
CHECK_DEADLOCK TRUE
