CONSTANTS
  k1 = k1  k2 = k2  r1 = r1  r2 = r2  c1 = c1  c2 = c2
  None = None  Main = Main
  Key <- MCNoKey
  Res <- MCTwoRes
  Call <- MCCall
  MaxValue = 1
  MaxTime = 2
  MaxTick = 3
  Burst = {"app", "stream"}
  CanReload = TRUE
  CanFail = TRUE
  Raising = {"notifier", "supplier"}
SPECIFICATION FairSpec
CHECK_DEADLOCK FALSE
INVARIANTS TypeOK AllOrNothing LinkedIsLive NothingLeftBehind SubscribedIsAlive
PROPERTY CallsSettle
