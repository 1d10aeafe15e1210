SPECIFICATION AllSpec
CONSTANTS
  Execs = {"e"}
  Guarded = {"e"}
  Limit = 1
  Tries = 3
  Events = {"cancel", "expire", "lost", "transport", "crash", "restart"}
INVARIANTS
  DoneOnce
  CancelledNeverStarts
PROPERTIES
  DoneWhenDue
  KeepsGate
  
\* What is processed, ended or cancelled has nothing left to do.
CHECK_DEADLOCK FALSE
