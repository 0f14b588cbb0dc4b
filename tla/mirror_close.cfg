CONSTANTS
  MaxSocket = 4
  MaxMirror = 1
  MaxWrite = 1
  MaxRow = 1
  MaxFault = 1
  CanClose = TRUE
  CanRefuse = TRUE
  Rejectable = {1}
  Seeded = TRUE
SPECIFICATION FairSpec
CHECK_DEADLOCK FALSE
INVARIANTS StaysClosed AckedIsApplied
PROPERTIES Closes
