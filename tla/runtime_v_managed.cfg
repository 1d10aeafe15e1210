SPECIFICATION Spec
CONSTANTS
  Processes = {1}
  Admins = {1}
  Bodies <- Changes
  Deployed <- Nothing
PROPERTIES
  ManagedStays
\* Settings that are never changed again have nothing left to do.
CHECK_DEADLOCK FALSE
