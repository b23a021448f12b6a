SPECIFICATION FairSpec
CONSTANTS
  c1 = c1
  c2 = c2
  Client = {c1, c2}
  Ip <- MCIp
  RateLimit = 1
  Cap = 2
  MaxSent <- MCMaxSent
  UserConnect = FALSE
INVARIANTS
  SlotsAreHeld
  StreamsAreLive
  TopicIsNotOlder
PROPERTIES
  NoHandlerAfterDisconnect
  ClosedIsOver
CHECK_DEADLOCK FALSE
