SPECIFICATION FairSpec
CONSTANTS
  NumBlocks = 5
  PagesPerBlock = 2
  GCTrigger = 4
  Lpns = {l1, l2, l3, l4}
  Stream0 = s0
  Streams = {s0}
  NotAllocated = NotAllocated
PROPERTY
  WriteCompletes
