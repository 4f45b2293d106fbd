SPECIFICATION Spec
CONSTANTS
  NumSegments = 5
  SegmentSize = 4
  FreeLow = 1
  FreeHigh = 2
  Keys = {k1, k2, k3, k4, k5}
  Group <- SingleBlocks
  HostStreams = {h1}
  HostChoice <- AnyStream
  GCStreams = {g1}
  StreamPolicy = FALSE
  EvictorKind = "ordered"
  CompactorKind = "ordered"
  CompactTargets = {0, 9}
  None = None
VIEW Renamed
SYMMETRY KeySymmetry
INVARIANTS
  MappingExact
  CountsExact
  AssertionsHold
