CONSTANTS
  MaxStream = 1
  MaxData = 2
  MaxReply = 1
  Calls = {"close"}
  MaxReauth = 1
  MaxCut = 1
  ServerOpens = FALSE
  ClientEnds = TRUE
  LateTimer = TRUE
  DeliversWhileClosing = TRUE
  OrderedOpen = FALSE
SPECIFICATION Spec
CHECK_DEADLOCK FALSE
INVARIANTS TypeOK InOrderDelivery AnnouncedOnce EndedSocketTellsStreams StreamsAgree QuietAfterEnd
