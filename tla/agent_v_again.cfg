SPECIFICATION Spec
CONSTANTS
  Runs = {r1}
  Streamed = {r1}
  Deciders = {d1}
  Worker = Worker
  MaxAttempts = 2
  MaxAsks = 1
  Tries = 2
  Events = {"plain", "error", "fallback"}
INVARIANTS
  NotStartedAgain
\* A conversation whose runs have ended has nothing left to do.
CHECK_DEADLOCK FALSE
