CONSTANTS
  MaxSocket = 2
  MaxMirror = 1
  MaxWrite = 1
  MaxRow = 1
  MaxFault = 1
  CanClose = FALSE
  CanRefuse = FALSE
  Rejectable = {}
  Seeded = FALSE
SPECIFICATION Spec
CHECK_DEADLOCK FALSE
INVARIANT AckedIsApplied
