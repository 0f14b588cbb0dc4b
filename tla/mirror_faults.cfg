CONSTANTS
  MaxSocket = 4
  MaxMirror = 1
  MaxWrite = 2
  MaxRow = 1
  MaxFault = 1
  CanClose = FALSE
  CanRefuse = FALSE
  Rejectable = {1}
  Seeded = TRUE
SPECIFICATION FairSpec
CHECK_DEADLOCK FALSE
INVARIANTS TypeOK AttachedToCurrent AckedIsApplied RejectionReported MarkIsComplete
PROPERTIES Pushed Pulled
