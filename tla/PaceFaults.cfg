SPECIFICATION Spec
CONSTANTS
  collect = collect
  process = process
  deliver = deliver
  NoBound = NoBound
  Services = {collect, process}
  KindOf <- MCKindOf
  GiveUpAfter <- MCGiveUpAfter
  Stoppable <- MCStoppable
  Spacings <- TwoSpacings
  LongestStart = 2
  FirstWaits <- OneFirstWait
  RetryAfters <- LongRetryAfter
  MaxWait = 3
  StreakCap = 2
  RunCap = 2
  Lifetime = 3
  Chunk = 2
  MaxRequest = 1
  WaitedCap = 5
  Events = {"block", "window", "stop", "crash", "session"}
INVARIANTS
  OneLockedRequest
CHECK_DEADLOCK TRUE
