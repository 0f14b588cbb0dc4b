CONSTANTS
  p1 = p1  p2 = p2
  a1 = a1  a2 = a2  a3 = a3  a4 = a4
  t1 = t1  t2 = t2  t3 = t3
  None = None
  Proc <- MCProc
  Addr <- MCAddr2
  Tx <- MCTx
  Modes <- MCColdModes
  Initialised = FALSE
  MaxCrash = 1
  NotifyMayRaise = TRUE
  UseForkExists = 1
SPECIFICATION FairSpec
CHECK_DEADLOCK FALSE
INVARIANTS RefCount BorrowedAlive
PROPERTY CallsReturn
