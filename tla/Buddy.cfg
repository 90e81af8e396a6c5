\* Six frames, so that the last buddies lie outside the zone; boot's pages are
\* unmovable and the callers' movable, so that free lists of two types mix.
SPECIFICATION Spec
CONSTANTS
  Actors = {a0, a1}
  Frames = 6
  MAX_ORDER = 3
  MigrateTypes = {"movable"}
  BootBlocks <- MCEdgeBlocks
  PcpHigh = 2
  PcpBatch = 2
  MaxCount = 2
  UlongSize = 2
SYMMETRY MCSymmetry
INVARIANTS FramesPartitioned FreeListsCoherent FullyMerged
  FreePagesUnreferenced RunsOffOnlyWhenEmpty
PROPERTY ImplementsPageAllocator
CHECK_DEADLOCK FALSE
