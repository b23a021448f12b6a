SPECIFICATION FairSpec
CONSTANTS
  Server = {"http", "wt", "http3"}
  Process = {1, 2}
  Proc <- MCProc
  Wt = {"wt"}
  Http3 = {"http3"}
  Port <- MCPort
  Foreign = {"tcp"}
  Barred = {2}
  NoServer = "none"
  MaxStarts = 2
INVARIANTS
  CrossedBetweenProcesses
  ExitsAreRaces
PROPERTIES
  DestroyedIsSilent
  StartReturns
CHECK_DEADLOCK FALSE
