SPECIFICATION FairSpec
CONSTANTS
  Size = 1
  Parallel = 1
  MaxStarts = 4
  Tries = 2
  Events = {"retry", "error"}
PROPERTIES
  RetriedIsRun
\* A team run that has ended has nothing left to do.
CHECK_DEADLOCK FALSE
