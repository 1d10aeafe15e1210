SPECIFICATION Spec
INVARIANTS
  TakenOnce
  ServedIsTested
  ContentIsKept
PROPERTIES
  ActedWhileValid
\* What has been answered, saved or ended has nothing left to do.
CHECK_DEADLOCK FALSE
