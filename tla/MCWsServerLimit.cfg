SPECIFICATION Spec
CONSTANTS
  c1 = c1
  c2 = c2
  Client = {c1, c2}
  Ip <- MCIp
  RateLimit = 1
  Cap = 2
  MaxSent <- MCMaxSent
  UserConnect = TRUE
PROPERTIES
  RefusedByOwnAddress
CHECK_DEADLOCK FALSE
