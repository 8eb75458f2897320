SPECIFICATION FairSpec
CONSTANTS
  o1 = o1
PROPERTIES
  NothingIsForgotten
  EveryJobEnds
CHECK_DEADLOCK FALSE
