SPECIFICATION FairSpec
CONSTANTS
  Postings = 5
  Initially = 3
  PageSize = 2
  ShortPages = FALSE
  Burst = 1
  MasksOutlast = FALSE
  MaxPages = 2
  AreaCapped = TRUE
  RefusedPages = 2
  KnownPages = 2
  Margin = 1
  FirstWindow = 3
  MaxWindow = 2
  MinInterval = 1
  MaxInterval = 1
  Base = 1
  EmptyStreak = 2
  Daily = 1
  RetrySoon = 1
INVARIANTS
  NoGap
  OffsetFollowsSightings
PROPERTIES
  HonestEnd
  OffsetIsKept
  WalksFinish
CHECK_DEADLOCK TRUE
