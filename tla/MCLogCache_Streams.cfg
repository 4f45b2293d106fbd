SPECIFICATION Spec
CONSTANTS
  NumSegments = 7
  SegmentSize = 4
  FreeLow = 2
  FreeHigh = 2
  Keys = {k1, k2, k3}
  Group <- SingleBlocks
  HostStreams = {h1, h2}
  HostChoice <- AnyStream
  GCStreams = {g1, g2}
  StreamPolicy = TRUE
  EvictorKind = "ordered"
  CompactorKind = "ordered"
  CompactTargets = {0, 9}
  None = None
VIEW Renamed
SYMMETRY AllSymmetry
INVARIANTS
  GCAllocationSucceeds
  SegmentInOnePlace
