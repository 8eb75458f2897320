SPECIFICATION Spec
CONSTANTS
  Postings = 3
  Initially = 2
  PageSize = 2
  ShortPages = FALSE
  Burst = 1
  MasksOutlast = FALSE
  MaxPages = 4
  AreaCapped = FALSE
  RefusedPages = 2
  KnownPages = 2
  Margin = 2
  FirstWindow = 10
  MaxWindow = 9
  MinInterval = 1
  MaxInterval = 2
  Base = 1
  EmptyStreak = 2
  Daily = 2
  RetrySoon = 1
INVARIANTS
  PausesLeaveNoGap
CHECK_DEADLOCK TRUE
