SPECIFICATION FairSpec
CONSTANTS
  r1 = r1
  r2 = r2
  None = None
  Owners = {r1, r2}
  ChunkCount = 2
  SlabCount = 3
  SlabSize = 3
  Spare = 1
  Sizes = {1, 4}
  MaxBuffers = 3
INVARIANTS
  NoOverlap
  SlabsAccounted
PROPERTIES
  HeapSpec
  AllocationEnds
