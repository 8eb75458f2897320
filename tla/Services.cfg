SPECIFICATION Spec
CONSTANTS
  o1 = o1 o2 = o2 r1 = r1 r2 = r2 x1 = x1 x2 = x2
  jobs <- TwoCards models <- OneBatch upkeep <- TwoJobs daily <- TwoOffers verify <- TwoCalls
  log <- TwoRuns scrape <- TwoSearches excerpt <- ShortTexts picks <- TwoTiers source <- TwoDays
  day <- TwoSlices watch <- Twins
INVARIANTS
  TypesAreKept
  JobsAreHeld
  SeenIsHandled
  VerificationIsSound
  FailuresAreTold
  LogIsHonest
  ScrapeIsSparing
  PicksAreFair
  SourcesAreComplete
  CopyIsCurrent
  LockedWork
PROPERTIES
  ProgressIsKept
  OffersAreKept
  AlertsAreSpaced
CHECK_DEADLOCK FALSE
