SPECIFICATION Spec
CONSTANTS
  Owner = {"rust", "python", "wt"}
  Shape = {"text", "short", "long", "huge", "bare"}
  JsonLen <- MCJsonLen
  BinLen <- MCBinLen
  Bare = {"bare"}
  MetaMax = 3
  MessageMax = 5
  MaxSent = 3
  BlockSize = 9
INVARIANTS
  DispatchedIsPrefix
  NeverGivesUp
  WholeFramesArrive
CHECK_DEADLOCK FALSE
