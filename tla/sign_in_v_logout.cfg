SPECIFICATION Spec
CONSTANTS
  p1 = p1
  p2 = p2
  c1 = c1
  Clients = {p1, p2}
  Managers = {}
  Challenges = {c1}
  MaxTokens = 3
  MaxSecrets = 1
  MaxStep = 0
  MaxTries = 2
  Requests = {"signin", "refresh", "logout"}
  Enrolled = FALSE
PROPERTIES
  LogoutRevokes
\* A user may stop signing in.
CHECK_DEADLOCK FALSE
