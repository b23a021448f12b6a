SPECIFICATION FairSpec
CONSTANTS
  Op <- MCOp
  MaxOps = 4
  Cap = 4
  UserConnect = {TRUE, FALSE}
INVARIANTS
  OneHeadFirst
  EndedIsDelivered
  LengthIsBody
PROPERTIES
  Finishes
CHECK_DEADLOCK FALSE
