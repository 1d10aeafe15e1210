SPECIFICATION AllSpec
CONSTANTS
  r2 = r2
  r1 = r1
  d1 = d1
  Runs = {r1}
  Streamed = {r1}
  Deciders = {d1}
  Worker = Worker
  MaxAttempts = 1
  MaxAsks = 2
  Tries = 2
  Events = {"cancel", "leave", "expire", "crash", "error", "empty", "refused"}
INVARIANTS
  CallSentOnce
  CompletedHasItsAnswer
  DoneOnce
  
PROPERTIES
  KeepsGate
  
\* Runs that have ended have nothing left to do.
CHECK_DEADLOCK FALSE
