SPECIFICATION FairSpec
CONSTANTS
  Shape = {"get", "lost", "json", "large", "nojson", "longer", "form", "noform",
           "badform", "shorter", "formkeys", "upload", "badfile", "nofile", "nodisk",
           "nolength", "cutchar", "cutbare", "cuttorn", "text", "badquery",
           "querykeys", "badlength"}
  BodyType <- MCBodyType
  Chunks <- MCChunks
  Length <- MCLength
  Fault <- MCFault
  Cut <- MCCut
  NoShape = "none"
  Proto = {"h2", "h3"}
  MaxReqs = 2
  Later = {"form"}
  Window = 2
  Op <- MCOp
  OpsOf <- MCOpsOf
  Blocks = 1
  Cap = 3
INVARIANTS
  OneHeadFirst
PROPERTIES
  DispatchedWhole
  SoundIsAnswered
  ComesBack
  EndedIsDelivered
CHECK_DEADLOCK FALSE
