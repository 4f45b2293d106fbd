SPECIFICATION PartsSpec
CONSTANTS
  FKeys = {a, b, c, d}
  FSlots = 3
  FNone = FNone
  TotalSegments = 5
  SegBlocks = 2
  Blocks = {e1, e2, e3, e4}
  Nil = Nil
  PSegs = {s1, s2, s3}
  PSize = 2
  PQueues = 2
  PMaxGen = 4
  PNone = PNone
  SBlocks = {0, 1, 2}
  SNear = 2
  SRing = 4
  SSegment = 2
  SCollects = 2
  SAges = {1, 3}
  SUnknown = 10000
  SLog = 6
  SNone <- MCNone
  DRuns = {1, 2}
  DBins = {1, 2, 3}
  DCosts = {1, 2}
  DSteps = 3
  DIntervals = {1, 2}
  DInf = 100
  DNo <- MCNone
  MBlocks = {b1, b2, b3}
  MLen = 6
  MShapes <- MCShapes
  MInterval = 2
  MNever <- MCNone
  UChars = 6
  UThreads = 2
  ULines = 2
  URanges <- MCRanges
CHECK_DEADLOCK FALSE
SYMMETRY SegSymmetry
VIEW PartsView
INVARIANTS
  RingInOrder
  IndexExact
  SegmentsShared
  RegionCountsExact
  VictimsTracked
  HistoryKept
  DPOptimal
  MrcExact
  UsedExact
PROPERTIES
  LogFIFOImplementsTieredStore
  ChosenInOrder
  NothingDropped
