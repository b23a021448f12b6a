SPECIFICATION Spec
CONSTANTS
  MaxSent = 2
  BlockSize = 4
  Shape = {"get", "badfile"}
  BodyType <- MCBodyType
  BodyLen <- MCBodyLen
  Fault <- MCFault
  Cut <- MCCut
INVARIANTS
  RefusedIsNotHandled
CHECK_DEADLOCK FALSE
