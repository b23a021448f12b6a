SPECIFICATION LiveSpec
CONSTANTS
  Worker = {w1, w2}
  MaxStream = 2
  MaxOps = 2
  OpsOf <- MCOpsOf
INVARIANTS
  TypeOK
  RegistryIsLive
  RegisteredBeforeSent
  AppliedInOrder
  WokenHasEnded
PROPERTIES
  RefusedOnlyWhenOver
  ExchangeSpec
  EndWakes
  HandlerReturns
CHECK_DEADLOCK FALSE
