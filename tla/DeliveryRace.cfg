SPECIFICATION Spec
CONSTANTS
  a = a
  b = b
  NoJob = NoJob
  Jobs = {a, b}
  Tiers = {1, 2}
  TierOf <- OneTier
  Checked = {1}
  LastDay = 1
  MaxFaults = 0
  Refusals = FALSE
INVARIANTS
  AlertBeforeDigest
CHECK_DEADLOCK TRUE
