CONSTANTS
  MaxSocket = 2
  MaxMirror = 2
  MaxWrite = 0
  MaxRow = 0
  MaxFault = 1
  CanClose = FALSE
  CanRefuse = FALSE
  Rejectable = {}
  Seeded = TRUE
SPECIFICATION Spec
CHECK_DEADLOCK FALSE
INVARIANT ReplacedStaysClosed
