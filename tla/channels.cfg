SPECIFICATION AllSpec
CONSTANTS
  Updates = {"u1"}
  Requests = {"p1", "p2"}
  Workers = {"k1"}
  Texts = {"direct", "other", "menu", "ai", "chat"}
  HandoffMode = "ai_then_human"
  Deliveries = 3
  Tries = 2
  Events = {"lost", "fail", "crash", "error", "unlink", "approval"}
INVARIANTS
  RoutedOnce
  AcknowledgedIsQueued
  

  
\* A person may stop writing.
CHECK_DEADLOCK FALSE
