SPECIFICATION Spec
CONSTANTS
  NumSegments = 5
  SegmentSize = 2
  FreeLow = 1
  FreeHigh = 2
  Keys = {k1, k2, k3}
  Group <- SingleBlocks
  HostStreams = {h1}
  HostChoice <- AnyStream
  GCStreams = {g1}
  StreamPolicy = FALSE
  EvictorKind = "ordered"
  CompactorKind = "kth"
  CompactTargets = {0, 9}
  None = None
SYMMETRY KeySymmetry
INVARIANT
  VictimIsFull
