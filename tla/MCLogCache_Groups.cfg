SPECIFICATION FairSpec
CONSTANTS
  NumSegments = 5
  SegmentSize = 2
  FreeLow = 1
  FreeHigh = 2
  Keys = {0, 1, 2}
  Group <- PairGroups
  HostStreams = {h1}
  HostChoice <- AnyStream
  GCStreams = {g1}
  StreamPolicy = FALSE
  EvictorKind = "ordered"
  CompactorKind = "ordered"
  CompactTargets = {0, 9}
  None = None
PROPERTIES
  InsertCompletes
  ImplementsTieredStore
