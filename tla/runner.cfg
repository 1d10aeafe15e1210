SPECIFICATION AllSpec
CONSTANTS
  w1 = w1
  e1 = e1
  e2 = e2
  c1 = c1
  c2 = c2
  Nobody = Nobody
  Workspaces = {w1}
  Execs = {e1, e2}
  WorkspaceOf <- Shared
  Connections = {c1, c2}
  MaxConcurrent = 2
  MaxOutput = 1
  Page = 1
  Events = {"remove", "reset", "kill", "restart", "output", "late"}
INVARIANTS
  ProcessIsTracked
  WorkspaceIsKept
  StoppedNeverCompletes
  
PROPERTIES
  KeepsContract
  EveryRunEnds
