CONSTANTS
  Procs = {"main", "twin"} Unit = "main" DownAfter = 1 Repeat = 2 MaxUpsets = 2
SPECIFICATION FairSpec
INVARIANTS
  OneInstance
CHECK_DEADLOCK FALSE
