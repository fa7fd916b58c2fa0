SPECIFICATION Spec
CONSTANTS
  Dirs = {A, B}
  Links = {B}
  None = None
  MaxCalls = 2
  MaxItems = 2
INVARIANTS
  OwedAnAnswer
PROPERTIES
  BusyIsReleased
CHECK_DEADLOCK FALSE
