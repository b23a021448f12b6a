SPECIFICATION FairSpec
CONSTANTS
  Shape = {"upload"}
  BodyType <- MCBodyType
  Chunks <- MCChunks
  Length <- MCLength
  Fault <- MCFault
  Cut <- MCCut
  NoShape = "none"
  Proto = {"h2", "h3"}
  MaxReqs = 2
  Later = {"upload"}
  Window = 3
  Op <- MCOp
  OpsOf <- MCOpsOf
  Blocks = 2
  Cap = 4
PROPERTIES
  UploadsArrive
CHECK_DEADLOCK FALSE
