SPECIFICATION AllSpec
CONSTANTS
  a = a
  b = b
  m1 = m1
  m2 = m2
  Users = {a, b}
  Phones = {"x"}
  MaxTokens = 2
  Payloads = {{m1, m2}}
  Deliveries = 2
  Tries = 2
  Events = {"lost", "fail", "error", "fatal", "crash", "expire", "dashboard", "disabled"}
SYMMETRY PhoneSymmetry
INVARIANTS
  UsedOnce
  EnabledIsConfirmed
  RevokedLinksNobody
  
PROPERTIES
  EndedStays
\* A user may stop signing in.
CHECK_DEADLOCK FALSE
