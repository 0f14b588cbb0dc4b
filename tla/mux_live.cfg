CONSTANTS
  MaxStream = 3
  MaxData = 1
  MaxReply = 0
  Calls = {"close"}
  MaxReauth = 0
  MaxCut = 0
  ServerOpens = FALSE
  ClientEnds = FALSE
  LateTimer = FALSE
  DeliversWhileClosing = TRUE
  OrderedOpen = TRUE
SPECIFICATION FairSpec
CHECK_DEADLOCK FALSE
PROPERTIES Delivered CloseCompletes
