SPECIFICATION LRUSpec
CONSTANTS
  NumBlocks = 5
  PagesPerBlock = 2
  GCTrigger = 4
  Lpns = {0, 1, 2}
  Stream0 = s0
  Streams = {s0}
  NotAllocated = NotAllocated
  Keys = {k1, k2, k3, k4}
  Capacity = 3
  NoKey = NoKey
SYMMETRY KeySymmetry
INVARIANT
  AddressesExact
PROPERTY
  LRUImplementsTieredStore
