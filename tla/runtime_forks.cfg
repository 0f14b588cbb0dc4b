CONSTANTS
  k1 = k1  k2 = k2  r1 = r1  r2 = r2  c1 = c1  c2 = c2
  None = None  Main = Main
  Key <- MCKeys
  Res <- MCNoRes
  Call <- MCCall
  MaxValue = 2
  MaxTime = 1
  MaxTick = 1
  Burst = {"app"}
  CanReload = TRUE
  CanFail = TRUE
  Raising = {"supplier"}
SPECIFICATION Spec
CHECK_DEADLOCK FALSE
INVARIANTS AllOrNothing LinkedIsLive NothingLeftBehind Propagated
