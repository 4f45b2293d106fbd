SPECIFICATION Spec
CONSTANTS
  SegNum = 6
  PPS = 2
  LbaNum = 3
  NaiveN = 2
  FreeNum = 3
  HotVal = 2
  ColdTw = 1
  Configs <- MCConfigs
  MaxNaive = 3
  Nil = Nil
  Keys = {0, 3, 6, 9}
  LowWater = 7
  TargetVp = 2
  ILoop = 1
  MaxDrift = 1
VIEW Renamed
CHECK_DEADLOCK FALSE
INVARIANT
  HotSegmentsCounted
