CONSTANTS
  p1 = p1  p2 = p2
  a1 = a1  a2 = a2  a3 = a3  a4 = a4
  t1 = t1  t2 = t2  t3 = t3
  None = None
  Proc <- MCProc
  Addr <- MCAddr
  Tx <- MCTx
  Modes <- MCResultModes
  Initialised = TRUE
  MaxCrash = 0
  NotifyMayRaise = TRUE
  UseForkExists = 0
SPECIFICATION Spec
CHECK_DEADLOCK FALSE
INVARIANT FailedAbsent
