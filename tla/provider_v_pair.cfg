SPECIFICATION Spec
CONSTANTS
  Creds = {1}
  Keys = {1, 2}
  Urls = {1, 2}
  Opens <- Pairs
  Requests = {1, 2}
  Bodies <- Changes
  Runs = {1}
  MaxSessions = 0
  Events = {}
INVARIANTS
  VerifiedIsTested
\* A connection that is never changed again has nothing left to do.
CHECK_DEADLOCK FALSE
