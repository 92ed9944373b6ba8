SPECIFICATION FairSpec
CONSTANTS
    Threads = {main, worker}
    Painter = main
    Keys = {"pipeline", "shader"}
    DependsOn <- Needs
    MaxLoads = 3
    MaxPanics = 1
INVARIANTS
  AssetsShared
  HeldIsUsable
  RetainsTwoFrames
PROPERTY
  CallsEnd
CHECK_DEADLOCK FALSE
