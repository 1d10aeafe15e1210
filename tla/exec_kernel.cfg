SPECIFICATION AllSpec
CONSTANTS
  MaxAttempts = 2
  Tries <- FairTries
  Required = 1
  Events = {"cancel", "expire", "reconcile"}
INVARIANTS
  TypeOK
  OneHandler
  CompletedIsProven
  
  CommandStartsOnce
  AcceptedCancelWins
  StoppedIsDestroyed
  
PROPERTIES
  KeepsPromise
  EverySettles
\* A job that has ended and been cleaned up has nothing left to do.
CHECK_DEADLOCK FALSE
