CONSTANTS
  k1 = k1  k2 = k2  r1 = r1  r2 = r2  c1 = c1  c2 = c2
  None = None  Main = Main
  Key <- MCKey
  Res <- MCNoRes
  Call <- MCCall
  MaxValue = 2
  MaxTime = 1
  MaxTick = 1
  Burst = {"stream"}
  CanReload = FALSE
  CanFail = FALSE
  Raising = {}
SPECIFICATION Spec
CHECK_DEADLOCK FALSE
INVARIANT Propagated
