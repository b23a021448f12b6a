SPECIFICATION Spec
CONSTANTS
  MaxSent = 3
  BlockSize = 15
  Shape = {"get", "json", "form", "multipart", "dashed", "chunked", "large",
           "badquery", "badkeys", "badcookie", "badjson", "badform", "badtext",
           "badnames", "badfile"}
  BodyType <- MCBodyType
  BodyLen <- MCBodyLen
  Fault <- MCFault
  Cut <- MCCut
INVARIANTS
  DispatchedIsPrefix
  ConnectPairsWithDisconnect
  NothingForgotten
CHECK_DEADLOCK FALSE
