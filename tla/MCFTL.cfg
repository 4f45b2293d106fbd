SPECIFICATION Spec
CONSTANTS
  NumBlocks = 3
  PagesPerBlock = 3
  GCTrigger = 2
  Lpns = {l1, l2, l3, l4}
  Stream0 = s0
  Streams = {s0}
  NotAllocated = NotAllocated
SYMMETRY LpnSymmetry
INVARIANTS
  TypeOK
  MappedPagesReadable
  ValidPagesOwned
  HeapExact
  PoolSafe
  GCAllocationSucceeds
PROPERTY
  ImplementsLogicalDisk
