SPECIFICATION FairSpec
CONSTANTS
  a = a
  b = b
  NoJob = NoJob
  Jobs = {a, b}
  Tiers = {1, 2}
  TierOf <- OneTier
  Checked = {1}
  LastDay = 1
  MaxFaults = 2
  Refusals = TRUE
INVARIANTS
  DigestIsExact
  NotesAreThere
  MessageIsTheDigest
PROPERTIES
  DeliveredForGood
  ScoredIsDelivered
CHECK_DEADLOCK TRUE
